---- MODULE Spec2Model ----
(***************************************************************************)
(* Model of the annotation persistence engine of Kiosk                     *)
(* (src-tauri/src/annotations.rs): decoding annotations out of a PDF       *)
(* object graph, adding new ones, removing by rectangle and clearing a     *)
(* page.                                                                   *)
(*                                                                         *)
(* Numbers.  A number of the model is an exact fraction n/d in lowest      *)
(* terms; an f64 is modelled by the fraction it was written as.  `x as     *)
(* f32` is AsF32: round to 24 significant bits, ties to even (the exponent *)
(* range of an f32 is not reached by any modelled value).                  *)
(***************************************************************************)
EXTENDS Integers, Sequences, FiniteSets, TLC

VARIABLES files, last, procs, text_rects, merged

vars == <<files, last, procs, text_rects, merged>>

----------------------------------------------------------------------------
(* Bounds of the model *)

NumPages == 2
MaxAnnots == 2

----------------------------------------------------------------------------
(* f64 / f32 arithmetic *)

F32Mantissa == 2^24

(* the single member of a one-element set: binds a value computed once *)
TheOne(S) == CHOOSE x \in S : TRUE

RECURSIVE Gcd(_, _)
Gcd(a, b) == IF b = 0 THEN a ELSE Gcd(b, a % b)

(* the number n/d, d > 0, in lowest terms *)
Ratio(n, d) ==
    TheOne({[n |-> n \div g, d |-> d \div g] : g \in {Gcd(IF n < 0 THEN 0 - n ELSE n, d)}})

Whole(k) == [n |-> k, d |-> 1]

Lcm(a, b) == (a \div Gcd(a, b)) * b

Plus(x, y) ==
    TheOne({Ratio(a.n * (Lcm(a.d, b.d) \div a.d) + b.n * (Lcm(a.d, b.d) \div b.d),
                  Lcm(a.d, b.d)) :
              a \in {x}, b \in {y}})

Neg(x) == TheOne({[n |-> 0 - a.n, d |-> a.d] : a \in {x}})

Minus(x, y) == Plus(x, Neg(y))

Less(x, y) ==
    \E a \in {x}, b \in {y} :
        a.n * (Lcm(a.d, b.d) \div a.d) < b.n * (Lcm(a.d, b.d) \div b.d)

Abs(x) == TheOne({IF a.n < 0 THEN Neg(a) ELSE a : a \in {x}})

(* the unit in the last place of a 24-bit significand that holds n *)
RECURSIVE F32Step(_, _)
F32Step(n, s) == IF n < F32Mantissa * s THEN s ELSE F32Step(n, 2 * s)

(* the least power of two s that brings n * s / d up to 2^23 *)
RECURSIVE F32Scale(_, _, _)
F32Scale(n, d, s) ==
    IF (n * s) \div d >= F32Mantissa \div 2 THEN s ELSE F32Scale(n, d, 2 * s)

(* the multiple of s nearest to n, the even one of two equally near *)
RoundHalfEven(n, s) ==
    TheOne({IF 2 * (a % b) < b THEN (a \div b) * b
            ELSE IF 2 * (a % b) > b THEN ((a \div b) + 1) * b
            ELSE IF (a \div b) % 2 = 0 THEN (a \div b) * b ELSE ((a \div b) + 1) * b :
              a \in {n}, b \in {s}})

IsPowerOfTwo(d) == \E j \in 0..30 : d = 2^j

(* the f32 nearest to n/d, n >= 0.  A value whose significand is an integer
   number of steps (d a power of two, or n/d at least 2^23) is rounded at
   that step; any other is first scaled up to a 24-bit significand. *)
NearestF32(n, d) ==
    IF n = 0 \/ IsPowerOfTwo(d) \/ n \div d >= F32Mantissa \div 2
    THEN Ratio(RoundHalfEven(n, F32Step(n, IF IsPowerOfTwo(d) THEN 1 ELSE d)), d)
    ELSE TheOne({Ratio(RoundHalfEven(n * s, d) \div d, s) : s \in {F32Scale(n, d, 1)}})

AsF32(x) ==
    TheOne({[n |-> IF x.n < 0 THEN 0 - r.n ELSE r.n, d |-> r.d] :
              r \in {NearestF32(IF x.n < 0 THEN 0 - x.n ELSE x.n, x.d)}})

----------------------------------------------------------------------------
(* lopdf::Object, a tagged value *)

Null == [t |-> "Null"]
Integer(i) == [t |-> "Integer", i |-> i]
Real(f) == [t |-> "Real", f |-> f]
Name(n) == [t |-> "Name", n |-> n]
String(s) == [t |-> "String", s |-> s]
Boolean(b) == [t |-> "Boolean", b |-> b]
Reference(id) == [t |-> "Reference", id |-> id]
Array(a) == [t |-> "Array", a |-> a]
Dictionary(d) == [t |-> "Dictionary", d |-> d]

(* lopdf::Dictionary: a finite map from keys to objects *)
DictHas(d, k) == k \in DOMAIN d
DictSet(d, k, v) == [x \in (DOMAIN d) \cup {k} |-> IF x = k THEN v ELSE d[x]]
DictRemove(d, k) == [x \in (DOMAIN d) \ {k} |-> d[x]]

(* Result<T, AnnotationError> and Option<T> *)
Ok(v) == [ok |-> TRUE, val |-> v, err |-> <<>>]
Err(e) == [ok |-> FALSE, val |-> <<>>, err |-> e]
LoadError == <<"LoadError">>
SaveError == <<"SaveError">>
InvalidPage(i) == <<"InvalidPage", i>>
AnnotationFailed == <<"AnnotationFailed">>
ErrKind(r) == IF r.ok THEN "" ELSE r.err[1]

None == <<>>
Some(v) == <<v>>

----------------------------------------------------------------------------
(* Files and the document graph *)

NoFile == [kind |-> "absent"]
Garbage == [kind |-> "garbage"]
(* a file that has been created or truncated and not yet written in full *)
Partial == [kind |-> "partial"]
Pdf(objects, pages) == [kind |-> "pdf", objects |-> objects, pages |-> pages]

(* Document::load *)
Loadable(content) == content.kind = "pdf"

(* Document::get_object *)
HasObject(doc, id) == id \in 1..Len(doc.objects)
get_object(doc, id) == doc.objects[id]

(* Document::set_object *)
set_object(doc, id, obj) ==
    [doc EXCEPT !.objects = [i \in 1..Len(doc.objects) |-> IF i = id THEN obj ELSE doc.objects[i]]]

(* Document::add_object: the new id is max_id + 1 *)
add_object(doc, obj) == [doc EXCEPT !.objects = Append(doc.objects, obj)]
NewId(doc) == Len(doc.objects) + 1

(* Document::get_pages: page number (1-based) -> object id *)
get_pages(doc) == doc.pages

----------------------------------------------------------------------------
(* Decoder *)

get_number(obj) ==
    IF obj.t = "Integer" THEN Some(Whole(obj.i))
    ELSE IF obj.t = "Real" THEN Some(obj.f)
    ELSE None

get_object_id(obj) ==
    IF obj.t = "Reference" THEN Ok(obj.id) ELSE Err(AnnotationFailed)

DefaultColor == [r |-> Whole(1), g |-> Ratio(92, 100), b |-> Ratio(23, 100)]
DefaultStrokeWidth == Whole(2)
DecodedOpacityDefault == Whole(1)

SupportedSubtypes == {"Highlight", "Underline", "StrikeOut", "Ink", "Text"}

TypeOfSubtype(s) ==
    CASE s = "Highlight" -> "Highlight"
      [] s = "Underline" -> "Underline"
      [] s = "StrikeOut" -> "Strikethrough"
      [] s = "Ink" -> "Ink"
      [] s = "Text" -> "Text"

ParseSubtype(dict) ==
    IF DictHas(dict, "Subtype") /\ dict["Subtype"].t = "Name"
    THEN Some(dict["Subtype"].n) ELSE None

ParseRect(dict) ==
    IF DictHas(dict, "Rect") /\ dict["Rect"].t = "Array" /\ Len(dict["Rect"].a) = 4
    THEN LET arr == dict["Rect"].a
             x1 == get_number(arr[1])
             y1 == get_number(arr[2])
             x2 == get_number(arr[3])
             y2 == get_number(arr[4])
         IN  IF x1 # None /\ y1 # None /\ x2 # None /\ y2 # None
             THEN Some([x1 |-> x1[1], y1 |-> y1[1], x2 |-> x2[1], y2 |-> y2[1]])
             ELSE None
    ELSE None

UnwrapOr(opt, dflt) == IF opt = None THEN dflt ELSE opt[1]

ParseColor(dict) ==
    IF DictHas(dict, "C") /\ dict["C"].t = "Array" /\ Len(dict["C"].a) >= 3
    THEN LET arr == dict["C"].a
         IN  [r |-> UnwrapOr(get_number(arr[1]), DefaultColor.r),
              g |-> UnwrapOr(get_number(arr[2]), DefaultColor.g),
              b |-> UnwrapOr(get_number(arr[3]), DefaultColor.b)]
    ELSE DefaultColor

ParseContents(dict) ==
    IF DictHas(dict, "Contents") /\ dict["Contents"].t = "String"
    THEN dict["Contents"].s ELSE ""

(* ParseOpacity that falls back to the opacity a new annotation is given *)
ParseOpacity_ModelDefault(dict) ==
    IF DictHas(dict, "CA") THEN UnwrapOr(get_number(dict["CA"]), Ratio(1, 2))
    ELSE Ratio(1, 2)

ParseOpacity(dict) ==
    IF DictHas(dict, "CA") THEN UnwrapOr(get_number(dict["CA"]), DecodedOpacityDefault)
    ELSE DecodedOpacityDefault

(* ParsePairs that stops at the first pair with a non-numeric member *)
RECURSIVE ParsePairs_StopsAtBadPair(_, _)
ParsePairs_StopsAtBadPair(arr, i) ==
    IF i + 1 > Len(arr) THEN <<>>
    ELSE LET x == get_number(arr[i])
             y == get_number(arr[i + 1])
         IN  IF x # None /\ y # None
             THEN <<[x |-> x[1], y |-> y[1]]>> \o ParsePairs_StopsAtBadPair(arr, i + 2)
             ELSE <<>>

RECURSIVE ParsePairs(_, _)
ParsePairs(arr, i) ==
    IF i + 1 > Len(arr) THEN <<>>
    ELSE LET x == get_number(arr[i])
             y == get_number(arr[i + 1])
             rest == ParsePairs(arr, i + 2)
         IN  IF x # None /\ y # None
             THEN <<[x |-> x[1], y |-> y[1]]>> \o rest
             ELSE rest

ParseQuadPoints(dict) ==
    IF DictHas(dict, "QuadPoints") /\ dict["QuadPoints"].t = "Array"
    THEN ParsePairs(dict["QuadPoints"].a, 1) ELSE <<>>

RECURSIVE ParseInkPaths(_, _)
ParseInkPaths(ink_list, i) ==
    IF i > Len(ink_list) THEN <<>>
    ELSE LET rest == ParseInkPaths(ink_list, i + 1)
         IN  IF ink_list[i].t = "Array"
             THEN LET points == ParsePairs(ink_list[i].a, 1)
                  IN  IF points # <<>> THEN <<points>> \o rest ELSE rest
             ELSE rest

ParseInkList(dict) ==
    IF DictHas(dict, "InkList") /\ dict["InkList"].t = "Array"
    THEN ParseInkPaths(dict["InkList"].a, 1) ELSE <<>>

ParseStrokeWidth(dict) ==
    IF DictHas(dict, "BS") /\ dict["BS"].t = "Dictionary" /\ DictHas(dict["BS"].d, "W")
    THEN UnwrapOr(get_number(dict["BS"].d["W"]), DefaultStrokeWidth)
    ELSE DefaultStrokeWidth

parse_annotation(obj, page_index) ==
    IF obj.t # "Dictionary" THEN None
    ELSE LET dict == obj.d
             subtype == ParseSubtype(dict)
             rect == ParseRect(dict)
         IN  IF subtype = None THEN None
             ELSE IF rect = None THEN None
             ELSE IF subtype[1] \notin SupportedSubtypes THEN None
             ELSE Some([annotation_type |-> TypeOfSubtype(subtype[1]),
                        page |-> page_index,
                        rect |-> rect[1],
                        quad_points |-> ParseQuadPoints(dict),
                        ink_paths |-> ParseInkList(dict),
                        contents |-> ParseContents(dict),
                        color |-> ParseColor(dict),
                        opacity |-> ParseOpacity(dict),
                        stroke_width |-> ParseStrokeWidth(dict),
                        id |-> None])

(* the inner loop of get_annotations over one Annots array *)
RECURSIVE DecodeEntries(_, _, _, _)
DecodeEntries(doc, annot_refs, i, page_index) ==
    IF i > Len(annot_refs) THEN Ok(<<>>)
    ELSE LET id == get_object_id(annot_refs[i])
         IN  IF ~id.ok THEN id
             ELSE LET here == IF HasObject(doc, id.val)
                              THEN parse_annotation(get_object(doc, id.val), page_index)
                              ELSE None
                      rest == DecodeEntries(doc, annot_refs, i + 1, page_index)
                  IN  IF rest.ok THEN Ok(here \o rest.val) ELSE rest

(* the body of the page loop of get_annotations for page number page_num *)
DecodePage(doc, page_num) ==
    LET page_id == get_pages(doc)[page_num]
    IN  IF HasObject(doc, page_id) /\ get_object(doc, page_id).t = "Dictionary"
           /\ DictHas(get_object(doc, page_id).d, "Annots")
        THEN LET id == get_object_id(get_object(doc, page_id).d["Annots"])
             IN  IF ~id.ok THEN id
                 ELSE IF HasObject(doc, id.val) /\ get_object(doc, id.val).t = "Array"
                 THEN DecodeEntries(doc, get_object(doc, id.val).a, 1, page_num - 1)
                 ELSE Ok(<<>>)
        ELSE Ok(<<>>)

(* DecodePages that puts the later pages first *)
RECURSIVE DecodePages_Reversed(_, _)
DecodePages_Reversed(doc, page_num) ==
    IF page_num > Len(get_pages(doc)) THEN Ok(<<>>)
    ELSE LET here == DecodePage(doc, page_num)
         IN  IF ~here.ok THEN here
             ELSE LET rest == DecodePages_Reversed(doc, page_num + 1)
                  IN  IF rest.ok THEN Ok(rest.val \o here.val) ELSE rest

RECURSIVE DecodePages(_, _)
DecodePages(doc, page_num) ==
    IF page_num > Len(get_pages(doc)) THEN Ok(<<>>)
    ELSE LET here == DecodePage(doc, page_num)
         IN  IF ~here.ok THEN here
             ELSE LET rest == DecodePages(doc, page_num + 1)
                  IN  IF rest.ok THEN Ok(here.val \o rest.val) ELSE rest

get_annotations(content) ==
    IF ~Loadable(content) THEN Err(LoadError) ELSE DecodePages(content, 1)

----------------------------------------------------------------------------
(* Encoder *)

(* Object::Real(v as f32) of each value in turn *)
Reals(values) == [k \in DOMAIN values |-> Real(AsF32(values[k]))]

Flat(p) == Reals(<<p.x, p.y>>)

RECURSIVE FlattenPoints(_, _)
FlattenPoints(points, i) ==
    IF i > Len(points) THEN <<>>
    ELSE Flat(points[i]) \o FlattenPoints(points, i + 1)

DictSetAll(d, more) ==
    [x \in (DOMAIN d) \cup (DOMAIN more) |-> IF x \in DOMAIN more THEN more[x] ELSE d[x]]

(* add_quad_points whose default quad starts with the bottom corners *)
add_quad_points_BottomFirst(dict, quad_points, rect) ==
    IF quad_points = <<>>
    THEN DictSet(dict, "QuadPoints", Array(Reals(<<
             rect.x1, rect.y1, rect.x2, rect.y1,
             rect.x1, rect.y2, rect.x2, rect.y2>>)))
    ELSE DictSet(dict, "QuadPoints", Array(FlattenPoints(quad_points, 1)))

add_quad_points(dict, quad_points, rect) ==
    IF quad_points = <<>>
    THEN DictSet(dict, "QuadPoints", Array(Reals(<<
             rect.x1, rect.y2, rect.x2, rect.y2,
             rect.x1, rect.y1, rect.x2, rect.y1>>)))
    ELSE DictSet(dict, "QuadPoints", Array(FlattenPoints(quad_points, 1)))

(* InkListOf that leaves out the strokes without a point *)
RECURSIVE InkListOf_DropsEmpty(_, _)
InkListOf_DropsEmpty(ink_paths, i) ==
    IF i > Len(ink_paths) THEN <<>>
    ELSE IF ink_paths[i] = <<>> THEN InkListOf_DropsEmpty(ink_paths, i + 1)
    ELSE <<Array(FlattenPoints(ink_paths[i], 1))>> \o InkListOf_DropsEmpty(ink_paths, i + 1)

RECURSIVE InkListOf(_, _)
InkListOf(ink_paths, i) ==
    IF i > Len(ink_paths) THEN <<>>
    ELSE <<Array(FlattenPoints(ink_paths[i], 1))>> \o InkListOf(ink_paths, i + 1)

PrintFlag == 4

(* {:02} of a field of the time *)
Pad2(n) == IF n < 10 THEN "0" \o ToString(n) ELSE ToString(n)

(* format!("D:{}", now.format("%Y%m%d%H%M%S+00'00'")) *)
date_str(now) ==
    "D:" \o ToString(now.year) \o Pad2(now.month) \o Pad2(now.day)
         \o Pad2(now.hour) \o Pad2(now.minute) \o Pad2(now.second) \o "+00'00'"

(* CommonFields with the no-zoom and no-rotate bits set next to print *)
CommonFields_AllFlags(annot, page_id, now) ==
    [Type |-> Name("Annot"),
     P |-> Reference(page_id),
     Rect |-> Array(Reals(<<annot.rect.x1, annot.rect.y1, annot.rect.x2, annot.rect.y2>>)),
     C |-> Array(Reals(<<annot.color.r, annot.color.g, annot.color.b>>)),
     CA |-> Real(AsF32(annot.opacity)),
     F |-> Integer(4 + 8 + 16),
     CreationDate |-> String(date_str(now)),
     M |-> String(date_str(now))]

(* the dictionary built by create_annotation_object; now is what Utc::now()
   returns in this call of it, and both dates are clones of the one date_str *)
CommonFields(annot, page_id, now) ==
    [Type |-> Name("Annot"),
     P |-> Reference(page_id),
     Rect |-> Array(Reals(<<annot.rect.x1, annot.rect.y1, annot.rect.x2, annot.rect.y2>>)),
     C |-> Array(Reals(<<annot.color.r, annot.color.g, annot.color.b>>)),
     CA |-> Real(AsF32(annot.opacity)),
     F |-> Integer(PrintFlag),
     CreationDate |-> String(date_str(now)),
     M |-> String(date_str(now))]

(* the Subtype and, for Ink and Text, the further type-specific entries *)
TypeFields(annot) ==
    CASE annot.annotation_type = "Highlight" -> [Subtype |-> Name("Highlight")]
      [] annot.annotation_type = "Underline" -> [Subtype |-> Name("Underline")]
      [] annot.annotation_type = "Strikethrough" -> [Subtype |-> Name("StrikeOut")]
      [] annot.annotation_type = "Ink" ->
           [Subtype |-> Name("Ink"),
            InkList |-> Array(InkListOf(annot.ink_paths, 1)),
            BS |-> Dictionary([Type |-> Name("Border"),
                               W |-> Real(AsF32(annot.stroke_width))])]
      [] annot.annotation_type = "Text" ->
           [Subtype |-> Name("Text"),
            Contents |-> String(annot.contents),
            Name |-> Name("Comment"),
            Open |-> Boolean(FALSE)]

IsMarkup(annot) == annot.annotation_type \in {"Highlight", "Underline", "Strikethrough"}

AnnotationDict(annot, page_id, now) ==
    LET common == CommonFields(annot, page_id, now)
        typed == TypeFields(annot)
        dict == DictSetAll(common, typed)
    IN  IF IsMarkup(annot) THEN add_quad_points(dict, annot.quad_points, annot.rect)
        ELSE dict

(* create_annotation_object for every instance of one page, in order.  Each
   call reads the clock for itself: clock holds the successive readings of
   Utc::now() from the first object of this page on *)
RECURSIVE CreateObjects(_, _, _, _, _)
CreateObjects(doc, annots, i, page_id, clock) ==
    IF i > Len(annots) THEN [doc |-> doc, annot_refs |-> <<>>]
    ELSE LET annot_id == NewId(doc)
             rest == CreateObjects(
                         add_object(doc, Dictionary(AnnotationDict(annots[i], page_id, clock[i]))),
                         annots, i + 1, page_id, clock)
         IN  [doc |-> rest.doc, annot_refs |-> <<Reference(annot_id)>> \o rest.annot_refs]

(* the page's current Annots entries, through either form; empty otherwise *)
ExistingAnnots(doc, page_dict) ==
    IF ~DictHas(page_dict, "Annots") THEN <<>>
    ELSE LET annots_obj == page_dict["Annots"]
         IN  IF annots_obj.t = "Reference"
             THEN IF HasObject(doc, annots_obj.id) /\ get_object(doc, annots_obj.id).t = "Array"
                  THEN get_object(doc, annots_obj.id).a ELSE <<>>
             ELSE IF annots_obj.t = "Array" THEN annots_obj.a
             ELSE <<>>

(* AddToPage that writes into the array object an indirect Annots refers to *)
AddToPage_KeepsIndirect(doc, page_id, annots, clock) ==
    LET created == CreateObjects(doc, annots, 1, page_id, clock)
        doc1 == created.doc
        page_dict == get_object(doc1, page_id).d
        existing_annots == ExistingAnnots(doc1, page_dict) \o created.annot_refs
    IN  IF DictHas(page_dict, "Annots") /\ page_dict["Annots"].t = "Reference"
           /\ HasObject(doc1, page_dict["Annots"].id)
        THEN set_object(doc1, page_dict["Annots"].id, Array(existing_annots))
        ELSE set_object(doc1, page_id,
                 Dictionary(DictSet(page_dict, "Annots", Array(existing_annots))))

(* AddToPage with the new references put in front of the existing entries *)
AddToPage_Prepends(doc, page_id, annots, clock) ==
    LET created == CreateObjects(doc, annots, 1, page_id, clock)
        doc1 == created.doc
    IN  IF HasObject(doc1, page_id) /\ get_object(doc1, page_id).t = "Dictionary"
        THEN LET page_dict == get_object(doc1, page_id).d
                 existing_annots == created.annot_refs \o ExistingAnnots(doc1, page_dict)
             IN  set_object(doc1, page_id,
                     Dictionary(DictSet(page_dict, "Annots", Array(existing_annots))))
        ELSE doc1

(* one iteration of the page loop of save_annotations *)
AddToPage(doc, page_id, annots, clock) ==
    LET created == CreateObjects(doc, annots, 1, page_id, clock)
        doc1 == created.doc
    IN  IF HasObject(doc1, page_id) /\ get_object(doc1, page_id).t = "Dictionary"
        THEN LET page_dict == get_object(doc1, page_id).d
                 existing_annots == ExistingAnnots(doc1, page_dict) \o created.annot_refs
             IN  set_object(doc1, page_id,
                     Dictionary(DictSet(page_dict, "Annots", Array(existing_annots))))
        ELSE doc1

(* BTreeMap<u32, Vec<&AnnotationData>>: keys ascending, values in input order *)
RECURSIVE SortedSeq(_)
SortedSeq(S) ==
    IF S = {} THEN <<>>
    ELSE LET m == CHOOSE x \in S : \A y \in S : x <= y
         IN  <<m>> \o SortedSeq(S \ {m})

(* PageKeys that visits every page up to the highest one asked for *)
PageKeys_UpToMax(annotations) ==
    LET asked == {annotations[i].page : i \in 1..Len(annotations)}
    IN  SortedSeq({q \in 0..(NumPages + 1) : \E a \in asked : q <= a})

PageKeys(annotations) == SortedSeq({annotations[i].page : i \in 1..Len(annotations)})

(* OnPage that keeps only the first instance of the page *)
OnPage_FirstOnly(annotations, page_num) ==
    LET Test(a) == a.page = page_num
        mine == SelectSeq(annotations, Test)
    IN  IF mine = <<>> THEN <<>> ELSE <<mine[1]>>

OnPage(annotations, page_num) ==
    LET Test(a) == a.page = page_num IN SelectSeq(annotations, Test)

RECURSIVE AddPages(_, _, _, _, _)
AddPages(doc, annotations, keys, k, clock) ==
    IF k > Len(keys) THEN Ok(doc)
    ELSE LET page_num == keys[k]
         IN  IF (page_num + 1) \notin DOMAIN get_pages(doc)
             THEN Err(InvalidPage(page_num))
             ELSE AddPages(AddToPage(doc, get_pages(doc)[page_num + 1],
                                     OnPage(annotations, page_num), clock),
                           annotations, keys, k + 1,
                           SubSeq(clock, Len(OnPage(annotations, page_num)) + 1, Len(clock)))

(* Outcome of one call of the core: its result, how many times doc.save
   ran, whether the destination was written in full, whether doc.save left
   it created and incomplete, and the in-memory graph the call ended with *)
Outcome(result, save_calls, written, graph) ==
    [result |-> result, save_calls |-> save_calls, written |-> written,
     truncated |-> FALSE, graph |-> graph]

(* what one doc.save(dest_path) can do.  Document::save is lopdf's and not
   under src/: it creates the file (truncating one that is there) and then
   writes the graph into it, and either step can fail.  Which of the three
   happens is the environment's choice. *)
SaveResults == {"saved", "create failed", "write failed"}

(* doc.save(dest_path).map_err(..)? as the last step of a call (e.g.
   annotations.rs:396-397): the error is returned as it is, and nothing
   removes what a failed write left at dest_path *)
SaveAndReturn(doc, save, value) ==
    IF save = "saved" THEN Outcome(Ok(value), 1, TRUE, doc)
    ELSE [Outcome(Err(SaveError), 1, FALSE, doc) EXCEPT !.truncated = (save = "write failed")]

(* save_annotations that passes over instances of pages the document lacks *)
save_annotations_SkipsInvalidPages(content, dest_path, annotations, clock, save) ==
    IF ~Loadable(content) THEN Outcome(Err(LoadError), 0, FALSE, NoFile)
    ELSE LET Valid(a) == (a.page + 1) \in DOMAIN get_pages(content)
             kept == SelectSeq(annotations, Valid)
             edited == AddPages(content, kept, PageKeys(kept), 1, clock)
         IN  SaveAndReturn(edited.val, save,
                 [success |-> TRUE, path |-> dest_path,
                  annotations_count |-> Len(annotations)])

(* save_annotations that returns early, without serializing, when it is
   given no instance *)
save_annotations_SkipsEmpty(content, dest_path, annotations, clock, save) ==
    IF ~Loadable(content) THEN Outcome(Err(LoadError), 0, FALSE, NoFile)
    ELSE IF annotations = <<>>
    THEN Outcome(Ok([success |-> TRUE, path |-> dest_path, annotations_count |-> 0]),
                 0, FALSE, NoFile)
    ELSE LET edited == AddPages(content, annotations, PageKeys(annotations), 1, clock)
         IN  IF ~edited.ok THEN Outcome(edited, 0, FALSE, NoFile)
             ELSE SaveAndReturn(edited.val, save,
                      [success |-> TRUE, path |-> dest_path,
                       annotations_count |-> Len(annotations)])

save_annotations(content, dest_path, annotations, clock, save) ==
    IF ~Loadable(content) THEN Outcome(Err(LoadError), 0, FALSE, NoFile)
    ELSE LET edited == AddPages(content, annotations, PageKeys(annotations), 1, clock)
         IN  IF ~edited.ok THEN Outcome(edited, 0, FALSE, NoFile)
             ELSE SaveAndReturn(edited.val, save,
                      [success |-> TRUE, path |-> dest_path,
                       annotations_count |-> Len(annotations)])

----------------------------------------------------------------------------
(* Remover *)

tolerance == Whole(1)

(* RectMatches with the bound of the tolerance included *)
RectMatches_Inclusive(doc, annot_ref, rect) ==
    /\ annot_ref.t = "Reference"
    /\ HasObject(doc, annot_ref.id)
    /\ get_object(doc, annot_ref.id).t = "Dictionary"
    /\ LET r == ParseRect(get_object(doc, annot_ref.id).d)
       IN  /\ r # None
           /\ ~Less(tolerance, Abs(Minus(r[1].x1, rect.x1)))
           /\ ~Less(tolerance, Abs(Minus(r[1].y1, rect.y1)))
           /\ ~Less(tolerance, Abs(Minus(r[1].x2, rect.x2)))
           /\ ~Less(tolerance, Abs(Minus(r[1].y2, rect.y2)))

(* RectMatches that also drops what does not resolve to a dictionary with a
   four-number Rect *)
RectMatches_DropsUnresolved(doc, annot_ref, rect) ==
    \/ annot_ref.t # "Reference"
    \/ ~HasObject(doc, annot_ref.id)
    \/ get_object(doc, annot_ref.id).t # "Dictionary"
    \/ LET r == ParseRect(get_object(doc, annot_ref.id).d)
       IN  \/ r = None
           \/ /\ Less(Abs(Minus(r[1].x1, rect.x1)), tolerance)
              /\ Less(Abs(Minus(r[1].y1, rect.y1)), tolerance)
              /\ Less(Abs(Minus(r[1].x2, rect.x2)), tolerance)
              /\ Less(Abs(Minus(r[1].y2, rect.y2)), tolerance)

(* the filter predicate of remove_annotation: TRUE when the entry is dropped *)
RectMatches(doc, annot_ref, rect) ==
    /\ annot_ref.t = "Reference"
    /\ HasObject(doc, annot_ref.id)
    /\ get_object(doc, annot_ref.id).t = "Dictionary"
    /\ LET r == ParseRect(get_object(doc, annot_ref.id).d)
       IN  /\ r # None
           /\ Less(Abs(Minus(r[1].x1, rect.x1)), tolerance)
           /\ Less(Abs(Minus(r[1].y1, rect.y1)), tolerance)
           /\ Less(Abs(Minus(r[1].x2, rect.x2)), tolerance)
           /\ Less(Abs(Minus(r[1].y2, rect.y2)), tolerance)

(* Filtered that stops at the first match *)
Filtered_FirstOnly(doc, annots_array, rect) ==
    LET hits == {i \in 1..Len(annots_array) : RectMatches(doc, annots_array[i], rect)}
        first == CHOOSE i \in hits : \A j \in hits : i <= j
    IN  IF hits = {} THEN annots_array
        ELSE [i \in 1..(Len(annots_array) - 1) |->
                 IF i < first THEN annots_array[i] ELSE annots_array[i + 1]]

Filtered(doc, annots_array, rect) ==
    LET Keep(annot_ref) == ~RectMatches(doc, annot_ref, rect)
    IN  SelectSeq(annots_array, Keep)

(* remove_annotation that serializes whether or not anything was found *)
(* remove_annotation that also deletes the dictionaries of the entries it
   drops from the array *)
remove_annotation_DeletesMatched(content, dest_path, page_index, rect, save) ==
    IF ~Loadable(content) THEN Outcome(Err(LoadError), 0, FALSE, NoFile)
    ELSE IF (page_index + 1) \notin DOMAIN get_pages(content)
    THEN Outcome(Err(InvalidPage(page_index)), 0, FALSE, NoFile)
    ELSE LET doc == content
             page_id == get_pages(doc)[page_index + 1]
             has_annots == /\ HasObject(doc, page_id)
                           /\ get_object(doc, page_id).t = "Dictionary"
                           /\ DictHas(get_object(doc, page_id).d, "Annots")
             page_dict == get_object(doc, page_id).d
             annots_array == IF has_annots THEN ExistingAnnots(doc, page_dict) ELSE <<>>
             filtered == Filtered(doc, annots_array, rect)
             hits == {annots_array[i].id : i \in {j \in 1..Len(annots_array) :
                                                    RectMatches(doc, annots_array[j], rect)}}
             unlinked == set_object(doc, page_id,
                             Dictionary(DictSet(page_dict, "Annots", Array(filtered))))
             cleaned == [unlinked EXCEPT !.objects =
                            [id \in DOMAIN unlinked.objects |->
                                IF id \in hits THEN Null ELSE unlinked.objects[id]]]
         IN  IF hits # {}
             THEN SaveAndReturn(cleaned, save, TRUE)
             ELSE Outcome(Ok(FALSE), 0, FALSE, doc)

remove_annotation_AlwaysSaves(content, dest_path, page_index, rect, save) ==
    IF ~Loadable(content) THEN Outcome(Err(LoadError), 0, FALSE, NoFile)
    ELSE IF (page_index + 1) \notin DOMAIN get_pages(content)
    THEN Outcome(Err(InvalidPage(page_index)), 0, FALSE, NoFile)
    ELSE LET doc == content
             page_id == get_pages(doc)[page_index + 1]
             has_annots == /\ HasObject(doc, page_id)
                           /\ get_object(doc, page_id).t = "Dictionary"
                           /\ DictHas(get_object(doc, page_id).d, "Annots")
             page_dict == get_object(doc, page_id).d
             annots_array == IF has_annots THEN ExistingAnnots(doc, page_dict) ELSE <<>>
             filtered == Filtered(doc, annots_array, rect)
             found == \E i \in 1..Len(annots_array) : RectMatches(doc, annots_array[i], rect)
         IN  IF found
             THEN SaveAndReturn(
                      set_object(doc, page_id,
                          Dictionary(DictSet(page_dict, "Annots", Array(filtered)))),
                      save, TRUE)
             ELSE SaveAndReturn(doc, save, FALSE)

remove_annotation(content, dest_path, page_index, rect, save) ==
    IF ~Loadable(content) THEN Outcome(Err(LoadError), 0, FALSE, NoFile)
    ELSE IF (page_index + 1) \notin DOMAIN get_pages(content)
    THEN Outcome(Err(InvalidPage(page_index)), 0, FALSE, NoFile)
    ELSE LET doc == content
             page_id == get_pages(doc)[page_index + 1]
             has_annots == /\ HasObject(doc, page_id)
                           /\ get_object(doc, page_id).t = "Dictionary"
                           /\ DictHas(get_object(doc, page_id).d, "Annots")
             page_dict == get_object(doc, page_id).d
             annots_array == IF has_annots THEN ExistingAnnots(doc, page_dict) ELSE <<>>
             filtered == Filtered(doc, annots_array, rect)
             found == \E i \in 1..Len(annots_array) : RectMatches(doc, annots_array[i], rect)
         IN  IF found
             THEN SaveAndReturn(
                      set_object(doc, page_id,
                          Dictionary(DictSet(page_dict, "Annots", Array(filtered)))),
                      save, TRUE)
             ELSE Outcome(Ok(FALSE), 0, FALSE, doc)

----------------------------------------------------------------------------
(* Page clearer *)

(* clear_page_annotations that also deletes the array object an indirect
   Annots referred to *)
clear_page_annotations_DropsArray(content, dest_path, page_index, save) ==
    IF ~Loadable(content) THEN Outcome(Err(LoadError), 0, FALSE, NoFile)
    ELSE IF (page_index + 1) \notin DOMAIN get_pages(content)
    THEN Outcome(Err(InvalidPage(page_index)), 0, FALSE, NoFile)
    ELSE LET doc == content
             page_id == get_pages(doc)[page_index + 1]
             page_dict == get_object(doc, page_id).d
             count == Len(ExistingAnnots(doc, page_dict))
             indirect == DictHas(page_dict, "Annots") /\ page_dict["Annots"].t = "Reference"
             doc1 == set_object(doc, page_id, Dictionary(DictRemove(page_dict, "Annots")))
             doc2 == IF indirect THEN set_object(doc1, page_dict["Annots"].id, Null) ELSE doc1
         IN  IF count > 0 THEN SaveAndReturn(doc2, save, count)
             ELSE Outcome(Ok(0), 0, FALSE, doc2)

(* clear_page_annotations that counts a direct Annots array only *)
clear_page_annotations_CountsDirectOnly(content, dest_path, page_index, save) ==
    IF ~Loadable(content) THEN Outcome(Err(LoadError), 0, FALSE, NoFile)
    ELSE IF (page_index + 1) \notin DOMAIN get_pages(content)
    THEN Outcome(Err(InvalidPage(page_index)), 0, FALSE, NoFile)
    ELSE LET doc == content
             page_id == get_pages(doc)[page_index + 1]
             is_dict == HasObject(doc, page_id) /\ get_object(doc, page_id).t = "Dictionary"
             page_dict == get_object(doc, page_id).d
             count == IF is_dict /\ DictHas(page_dict, "Annots") /\ page_dict["Annots"].t = "Array"
                      THEN Len(page_dict["Annots"].a) ELSE 0
             doc1 == IF is_dict
                     THEN set_object(doc, page_id, Dictionary(DictRemove(page_dict, "Annots")))
                     ELSE doc
         IN  IF count > 0 THEN SaveAndReturn(doc1, save, count)
             ELSE Outcome(Ok(0), 0, FALSE, doc1)

clear_page_annotations(content, dest_path, page_index, save) ==
    IF ~Loadable(content) THEN Outcome(Err(LoadError), 0, FALSE, NoFile)
    ELSE IF (page_index + 1) \notin DOMAIN get_pages(content)
    THEN Outcome(Err(InvalidPage(page_index)), 0, FALSE, NoFile)
    ELSE LET doc == content
             page_id == get_pages(doc)[page_index + 1]
             is_dict == HasObject(doc, page_id) /\ get_object(doc, page_id).t = "Dictionary"
             page_dict == get_object(doc, page_id).d
             count == IF is_dict THEN Len(ExistingAnnots(doc, page_dict)) ELSE 0
             doc1 == IF is_dict
                     THEN set_object(doc, page_id, Dictionary(DictRemove(page_dict, "Annots")))
                     ELSE doc
         IN  IF count > 0 THEN SaveAndReturn(doc1, save, count)
             ELSE Outcome(Ok(0), 0, FALSE, doc1)

----------------------------------------------------------------------------
(* Command layer (commands.rs): the commands the viewer invokes.  fs is the
   file system, a map from path to file content; dest_path is an Option. *)

(* format!("{}.tmp", source_path) *)
(* TempPathOf that makes the core write onto the source itself *)
TempPathOf_Source(source_path) == source_path

TempPathOf(source_path) == source_path \o ".tmp"

(* e.to_string(): the Display text of an AnnotationError *)
to_string(e) ==
    CASE e[1] = "LoadError" -> <<"Failed to load PDF: ">>
      [] e[1] = "SaveError" -> <<"Failed to save PDF: ">>
      [] e[1] = "InvalidPage" -> <<"Invalid page index: ", e[2]>>
      [] e[1] = "AnnotationFailed" -> <<"Annotation error: ">>

RenameFailed == <<"Failed to replace original file: ">>

(* std::fs::rename: the file replaces whatever the new name held *)
rename(fs, from, to) ==
    [p \in DOMAIN fs |-> IF p = to THEN fs[from] ELSE IF p = from THEN NoFile ELSE fs[p]]

(* std::fs::remove_file; remove_ok is whether the file system lets the name
   go.  The callers drop the Result (let _ =), so a failure leaves the file
   where it is and is not reported. *)
remove_file(fs, path, remove_ok) ==
    IF remove_ok THEN [p \in DOMAIN fs |-> IF p = path THEN NoFile ELSE fs[p]]
    ELSE fs

(* the file system after a core call: doc.save has written the whole graph,
   or left the file created and incomplete, or not touched it *)
AfterCore(fs, dest_path, out) ==
    [p \in DOMAIN fs |-> IF p # dest_path THEN fs[p]
                         ELSE IF out.written THEN out.graph
                         ELSE IF out.truncated THEN Partial ELSE fs[p]]

(* Outcome of one command: its result, the file system it leaves, the
   destination it gave the core and the outcome of the core call *)
CommandOutcome(result, fs, core_dest, core) ==
    [result |-> result, fs |-> fs, core_dest |-> core_dest, core |-> core]

(* .map_err(|e| e.to_string()) *)
MapErr(result) == IF result.ok THEN result ELSE Err(to_string(result.err))

commands_get_annotations(fs, path) == MapErr(get_annotations(fs[path]))

(* dest == source_path, dest being dest_path.unwrap_or_else(|| source_path.clone()) *)
SameFile(source_path, dest_path) == UnwrapOr(dest_path, source_path) = source_path

(* the destination the command hands to the core *)
CoreDest(source_path, dest_path) ==
    IF SameFile(source_path, dest_path)
    THEN TempPathOf(source_path)
    ELSE UnwrapOr(dest_path, source_path)

(* FinishSave that reports success and leaves the temp file where it is *)
FinishSave_NoRename(fs1, source_path, dest_path, core, rename_ok) ==
    LET to == CoreDest(source_path, dest_path)
    IN  IF ~SameFile(source_path, dest_path) \/ ~core.result.ok
        THEN CommandOutcome(MapErr(core.result), fs1, to, core)
        ELSE IF ~rename_ok THEN CommandOutcome(Err(RenameFailed), fs1, to, core)
        ELSE CommandOutcome(
                 Ok([success |-> TRUE, path |-> source_path,
                     annotations_count |-> core.result.val.annotations_count]),
                 fs1, to, core)

(* save_annotations after its call of the core, core being the outcome of
   that call and fs1 the file system it left.  The temp file is renamed over
   the source only when the destination asked for is the source itself; any
   other destination, <source>.tmp included, is written and left alone. *)
FinishSave(fs1, source_path, dest_path, core, rename_ok) ==
    LET to == CoreDest(source_path, dest_path)
    IN  IF ~SameFile(source_path, dest_path) \/ ~core.result.ok
        THEN CommandOutcome(MapErr(core.result), fs1, to, core)
        ELSE IF ~rename_ok THEN CommandOutcome(Err(RenameFailed), fs1, to, core)
        ELSE CommandOutcome(
                 Ok([success |-> TRUE, path |-> source_path,
                     annotations_count |-> core.result.val.annotations_count]),
                 rename(fs1, to, source_path), to, core)

commands_save_annotations(fs, source_path, dest_path, annotations_data, clock, save, rename_ok) ==
    TheOne({FinishSave(AfterCore(fs, to, core), source_path, dest_path, core, rename_ok) :
              to \in {CoreDest(source_path, dest_path)},
              core \in {save_annotations(fs[source_path], CoreDest(source_path, dest_path),
                                         annotations_data, clock, save)}})

(* remove_annotation after its call of the core *)
FinishRemove(fs1, source_path, dest_path, core, rename_ok, remove_ok) ==
    LET to == CoreDest(source_path, dest_path)
    IN  IF ~SameFile(source_path, dest_path) \/ ~core.result.ok
        THEN CommandOutcome(MapErr(core.result), fs1, to, core)
        ELSE IF ~core.result.val
        THEN CommandOutcome(Ok(FALSE), remove_file(fs1, to, remove_ok), to, core)
        ELSE IF ~rename_ok THEN CommandOutcome(Err(RenameFailed), fs1, to, core)
        ELSE CommandOutcome(Ok(TRUE), rename(fs1, to, source_path), to, core)

commands_remove_annotation(fs, source_path, dest_path, page_index, rect, save, rename_ok, remove_ok) ==
    TheOne({FinishRemove(AfterCore(fs, to, core), source_path, dest_path, core, rename_ok,
                         remove_ok) :
              to \in {CoreDest(source_path, dest_path)},
              core \in {remove_annotation(fs[source_path], CoreDest(source_path, dest_path),
                                          page_index, rect, save)}})

(* clear_page_annotations after its call of the core *)
FinishClear(fs1, source_path, dest_path, core, rename_ok, remove_ok) ==
    LET to == CoreDest(source_path, dest_path)
    IN  IF ~SameFile(source_path, dest_path) \/ ~core.result.ok
        THEN CommandOutcome(MapErr(core.result), fs1, to, core)
        ELSE IF ~(core.result.val > 0)
        THEN CommandOutcome(Ok(core.result.val), remove_file(fs1, to, remove_ok), to, core)
        ELSE IF ~rename_ok THEN CommandOutcome(Err(RenameFailed), fs1, to, core)
        ELSE CommandOutcome(Ok(core.result.val), rename(fs1, to, source_path), to, core)

commands_clear_page_annotations(fs, source_path, dest_path, page_index, save, rename_ok, remove_ok) ==
    TheOne({FinishClear(AfterCore(fs, to, core), source_path, dest_path, core, rename_ok,
                        remove_ok) :
              to \in {CoreDest(source_path, dest_path)},
              core \in {clear_page_annotations(fs[source_path], CoreDest(source_path, dest_path),
                                               page_index, save)}})

----------------------------------------------------------------------------
(* Source documents.  Objects 1..NumPages are the pages, then a pool of
   annotation objects (well-formed and malformed), then one array object per
   page for the indirect form of Annots. *)

Rect0 == [x1 |-> Whole(10), y1 |-> Whole(10), x2 |-> Whole(50), y2 |-> Whole(30)]
Rect1 == [x1 |-> Whole(100), y1 |-> Whole(100), x2 |-> Whole(120), y2 |-> Whole(120)]
(* a coordinate an f64 holds and an f32 does not *)
Lossy == Ratio(F32Mantissa + 1, 2^10)

RealRect(r) == Array(<<Real(r.x1), Real(r.y1), Real(r.x2), Real(r.y2)>>)

Pool == <<
    (* 1 *) Dictionary([Type |-> Name("Annot"), Subtype |-> Name("Highlight"),
                        Rect |-> RealRect(Rect0),
                        C |-> Array(<<Real(Whole(1)), Real(Ratio(1, 2)), Integer(0)>>),
                        CA |-> Real(Ratio(1, 2)),
                        QuadPoints |-> Array(<<Real(Whole(10)), Real(Whole(30)),
                                               Real(Whole(50)), Real(Whole(30)),
                                               Real(Whole(10))>>)]),
    (* 2 *) Dictionary([Type |-> Name("Annot"), Subtype |-> Name("Ink"),
                        Rect |-> Array(<<Integer(10), Integer(10), Integer(50), Integer(30)>>),
                        InkList |-> Array(<<Array(<<Integer(1), Integer(2)>>), Array(<<>>)>>),
                        BS |-> Dictionary([W |-> Integer(3)])]),
    (* 3 *) Dictionary([Type |-> Name("Annot"), Subtype |-> Name("Text"),
                        Rect |-> RealRect(Rect1),
                        C |-> Array(<<Integer(0), Real(Whole(1)), Real(Whole(0)), Real(Whole(1))>>),
                        Contents |-> String("note")]),
    (* 4 *) Dictionary([Type |-> Name("Annot"), Subtype |-> Name("Square"),
                        Rect |-> RealRect(Rect0)]),
    (* 5 *) Dictionary([Type |-> Name("Annot"), Subtype |-> Name("Highlight")]),
    (* 6 *) Dictionary([Type |-> Name("Annot"), Subtype |-> Name("Underline"),
                        Rect |-> Array(<<Real(Whole(10)), Real(Whole(10)), Real(Whole(50))>>)]),
    (* 7 *) Dictionary([Type |-> Name("Annot"), Subtype |-> Name("StrikeOut"),
                        Rect |-> Array(<<Real(Whole(10)), Name("x"),
                                         Real(Whole(50)), Real(Whole(30))>>)]),
    (* 8 *) Integer(7),
    (* 9 *) Dictionary([Type |-> Name("Annot"), Rect |-> RealRect(Rect1),
                        Contents |-> String("untyped")]),
    (* 10 *) Dictionary([Type |-> Name("Annot"), Subtype |-> Name("Underline"),
                         Rect |-> RealRect(Rect1),
                         C |-> Array(<<Real(Whole(0)), Name("x"), Real(Ratio(1, 2))>>),
                         CA |-> Name("opaque"),
                         Contents |-> Integer(1),
                         BS |-> Dictionary([Type |-> Name("Border")]),
                         QuadPoints |-> Array(<<Integer(1), Name("y"),
                                                Real(Whole(3)), Real(Whole(4)),
                                                Real(Whole(5)), Real(Whole(6)),
                                                Real(Whole(7))>>)]),
    (* 11 *) Dictionary([Type |-> Name("Annot"), Subtype |-> Name("Ink"),
                         Rect |-> RealRect(Rect1),
                         C |-> Array(<<Real(Whole(1)), Real(Whole(0))>>),
                         CA |-> Real(Ratio(1, 4)),
                         BS |-> Integer(2),
                         InkList |-> Array(<<
                             Array(<<Integer(1), Integer(2), Integer(3), Integer(4),
                                     Integer(5)>>),
                             Integer(9),
                             Array(<<Name("z"), Integer(2)>>),
                             Array(<<Real(Whole(7)), Real(Whole(8))>>)>>)]),
    (* 12 *) Dictionary([Type |-> Name("Annot"), Subtype |-> Name("Text"),
                         Rect |-> RealRect(Rect1),
                         C |-> Integer(3),
                         Contents |-> String("said"),
                         NM |-> String("n1"),
                         BS |-> Dictionary([W |-> Name("wide")]),
                         QuadPoints |-> Name("none"),
                         InkList |-> Integer(0)])
>>

PoolSize == Len(Pool)
PoolRef(k) == Reference(NumPages + k)
Dangling == Reference(0)
ArrayId(p) == NumPages + PoolSize + p

(* How a page holds its annotations: the form of the Annots value and the
   entries of the array *)
PageConfigs == <<
    [form |-> "none", entries |-> <<>>],
    [form |-> "direct", entries |-> <<PoolRef(1), PoolRef(2)>>],
    [form |-> "direct",
     entries |-> <<PoolRef(5), PoolRef(1), PoolRef(6), PoolRef(7), PoolRef(4), PoolRef(9),
                   PoolRef(3)>>],
    [form |-> "direct", entries |-> <<Integer(5), PoolRef(1)>>],
    [form |-> "indirect",
     entries |-> <<PoolRef(1), PoolRef(2), PoolRef(10), PoolRef(11), PoolRef(12)>>],
    [form |-> "indirect",
     entries |-> <<PoolRef(3), PoolRef(8), PoolRef(1), Dangling, PoolRef(7), PoolRef(4),
                   PoolRef(9)>>],
    [form |-> "indirect", entries |-> <<>>],
    [form |-> "reference to a non-array", entries |-> <<>>],
    [form |-> "neither array nor reference", entries |-> <<>>]
>>

(* the configurations of PageConfigs that even pages take: no Annots, a
   direct array, an indirect array with malformed entries *)
EvenConfigs == {1, 2, 6}

PageObject(p, cfg) ==
    LET base == [Type |-> Name("Page")]
    IN  CASE cfg.form = "none" -> Dictionary(base)
          [] cfg.form = "direct" -> Dictionary(DictSet(base, "Annots", Array(cfg.entries)))
          [] cfg.form = "indirect" -> Dictionary(DictSet(base, "Annots", Reference(ArrayId(p))))
          [] cfg.form = "reference to a non-array" -> Dictionary(DictSet(base, "Annots", PoolRef(8)))
          [] cfg.form = "neither array nor reference" -> Dictionary(DictSet(base, "Annots", Integer(0)))

ArrayObject(cfg) == IF cfg.form = "indirect" THEN Array(cfg.entries) ELSE Null

SourceDocument(c) ==
    Pdf([i \in 1..(2 * NumPages + PoolSize) |->
            IF i <= NumPages THEN PageObject(i, PageConfigs[c[i]])
            ELSE IF i <= NumPages + PoolSize THEN Pool[i - NumPages]
            ELSE ArrayObject(PageConfigs[c[i - NumPages - PoolSize]])],
        [p \in 1..NumPages |-> p])

----------------------------------------------------------------------------
(* Inputs of the calls *)

SourcePath == "a.pdf"
DestPath == "b.pdf"
Paths == {SourcePath, DestPath}

(* what Utc::now() returns: two instants one second apart, in their order *)
Instant(hour, minute, second) ==
    [year |-> 2026, month |-> 10, day |-> 29,
     hour |-> hour, minute |-> minute, second |-> second]
Times == <<Instant(21, 39, 3), Instant(21, 39, 4)>>

(* the readings of the clock during a call that creates n objects: one for
   each object, none earlier than the one before *)
Clocks(n) ==
    {[k \in 1..n |-> Times[c[k]]] :
        c \in {c \in [1..n -> DOMAIN Times] : \A k \in 1..(n - 1) : c[k] <= c[k + 1]}}

Pt(x, y) == [x |-> Whole(x), y |-> Whole(y)]

Templates == <<
    [annotation_type |-> "Highlight", page |-> 0, rect |-> Rect0,
     quad_points |-> <<>>, ink_paths |-> <<>>, contents |-> "",
     color |-> DefaultColor, opacity |-> Ratio(1, 2),
     stroke_width |-> DefaultStrokeWidth, id |-> None],
    [annotation_type |-> "Underline", page |-> 0, rect |-> Rect1,
     quad_points |-> <<Pt(100, 120), Pt(120, 120), Pt(100, 100), Pt(120, 100)>>,
     ink_paths |-> <<>>, contents |-> "",
     color |-> [r |-> Whole(0), g |-> Whole(1), b |-> Ratio(1, 4)], opacity |-> Whole(1),
     stroke_width |-> DefaultStrokeWidth, id |-> Some("u1")],
    [annotation_type |-> "Strikethrough", page |-> 0,
     rect |-> [x1 |-> Lossy, y1 |-> Whole(10), x2 |-> Plus(Lossy, Whole(2)), y2 |-> Whole(30)],
     quad_points |-> <<>>, ink_paths |-> <<>>, contents |-> "struck",
     color |-> DefaultColor, opacity |-> Ratio(1, 2),
     stroke_width |-> DefaultStrokeWidth, id |-> None],
    [annotation_type |-> "Ink", page |-> 0, rect |-> Rect0,
     quad_points |-> <<>>,
     ink_paths |-> << <<Pt(10, 10), Pt(20, 20)>>, <<>>, <<Pt(30, 30)>> >>,
     contents |-> "",
     color |-> [r |-> Whole(1), g |-> Whole(0), b |-> Whole(0)], opacity |-> Whole(1),
     stroke_width |-> Whole(3), id |-> None],
    [annotation_type |-> "Text", page |-> 0, rect |-> Rect1,
     quad_points |-> <<>>, ink_paths |-> <<>>, contents |-> "note",
     color |-> DefaultColor, opacity |-> Whole(1),
     stroke_width |-> DefaultStrokeWidth, id |-> Some("t1")]
>>

(* page indexes the callers pass: every page of the document and one beyond *)
PageIndexes == 0..NumPages

Instance(k, p) == [Templates[k] EXCEPT !.page = p]

AnnotationLists ==
    UNION {[1..n -> (1..Len(Templates)) \X PageIndexes] : n \in 0..MaxAnnots}

InstancesOf(l) == [i \in 1..Len(l) |-> Instance(l[i][1], l[i][2])]

(* an offset just short of the tolerance *)
JustShort == Minus(tolerance, Ratio(1, 2^10))

Shifted(r, d, j, e) ==
    [x1 |-> Plus(r.x1, IF j = 1 THEN e ELSE d), y1 |-> Plus(r.y1, IF j = 2 THEN e ELSE d),
     x2 |-> Plus(r.x2, IF j = 3 THEN e ELSE d), y2 |-> Plus(r.y2, IF j = 4 THEN e ELSE d)]

(* request rectangles around Rect0: every coordinate off by the same amount
   short of the tolerance, or a single coordinate off by d with the others
   exact or just short of the tolerance; and one far away *)
RequestRects ==
    {Shifted(Rect0, d, 1, d) : d \in {Whole(0), JustShort, Neg(JustShort)}}
    \cup {Shifted(Rect0, Whole(0), j, e) : j \in 1..4, e \in {tolerance, Neg(tolerance)}}
    \cup {Shifted(Rect0, JustShort, j, tolerance) : j \in 1..4}
    \cup {Rect1}

----------------------------------------------------------------------------
(* The calls *)

(* no command is in progress and no text rectangles are at hand *)
NothingElse == procs = <<>> /\ text_rects = <<>> /\ merged = None

Elsewhere == UNCHANGED <<procs, text_rects, merged>>

NoCall ==
    [op |-> "none", source_path |-> "", dest_path |-> "", annotations |-> <<>>,
     page_index |-> 0, rect |-> Rect0, before |-> <<>>,
     outcome |-> Outcome(Ok(<<>>), 0, FALSE, NoFile)]

Call(op, source_path, dest_path, annotations, page_index, rect, out) ==
    [op |-> op, source_path |-> source_path, dest_path |-> dest_path,
     annotations |-> annotations, page_index |-> page_index, rect |-> rect,
     before |-> files, outcome |-> out]

(* the file system after a call: doc.save has written the whole graph, or
   left the file created and incomplete, or not touched it *)
Written(dest_path, out) ==
    IF out.written THEN [files EXCEPT ![dest_path] = out.graph]
    ELSE IF out.truncated THEN [files EXCEPT ![dest_path] = Partial]
    ELSE files

(* A behaviour is one write call on a source document (every call loads its
   own graph, so calls do not depend on earlier ones), then any number of
   decodes of the source and of the written destination.  Odd pages share
   one configuration and even pages another, one of EvenConfigs. *)
Init ==
    /\ \E c1 \in 1..Len(PageConfigs), c2 \in EvenConfigs :
          LET c == [p \in 1..NumPages |-> IF p % 2 = 1 THEN c1 ELSE c2] IN
          files \in {[p \in Paths |-> IF p = SourcePath THEN SourceDocument(c) ELSE NoFile],
                     [p \in Paths |-> IF p = SourcePath THEN Garbage ELSE NoFile]}
    /\ last = NoCall
    /\ NothingElse

GetAnnotations ==
    \E path \in Paths :
        /\ Elsewhere
        /\ files' = files
        /\ last' = Call("get_annotations", path, "", <<>>, 0, Rect0,
                        Outcome(get_annotations(files[path]), 0, FALSE, NoFile))

SaveAnnotations ==
    \E l \in AnnotationLists, save \in SaveResults :
      \E clock \in Clocks(Len(l)) :
        LET out == save_annotations(files[SourcePath], DestPath, InstancesOf(l), clock, save)
        IN  /\ Elsewhere
            /\ last.op = "none"
            /\ files' = Written(DestPath, out)
            /\ last' = Call("save_annotations", SourcePath, DestPath, InstancesOf(l),
                            0, Rect0, out)

RemoveAnnotation ==
    \E page_index \in PageIndexes, rect \in RequestRects, save \in SaveResults :
        LET out == remove_annotation(files[SourcePath], DestPath, page_index, rect, save)
        IN  /\ Elsewhere
            /\ last.op = "none"
            /\ files' = Written(DestPath, out)
            /\ last' = Call("remove_annotation", SourcePath, DestPath, <<>>,
                            page_index, rect, out)

ClearPageAnnotations ==
    \E page_index \in PageIndexes, save \in SaveResults :
        LET out == clear_page_annotations(files[SourcePath], DestPath, page_index, save)
        IN  /\ Elsewhere
            /\ last.op = "none"
            /\ files' = Written(DestPath, out)
            /\ last' = Call("clear_page_annotations", SourcePath, DestPath, <<>>,
                            page_index, Rect0, out)

Next ==
    \/ GetAnnotations
    \/ SaveAnnotations
    \/ RemoveAnnotation
    \/ ClearPageAnnotations

Spec == Init /\ [][Next]_vars

----------------------------------------------------------------------------
(* The commands.  A behaviour of CmdSpec is one command of the viewer on the
   source path, in place (no destination, or the source itself) or to
   another path, then any number of decodes.  The temp path starts absent, or
   holds the unmodified graph that an earlier in-place add of nothing left
   there when its rename failed. *)

TempPath == TempPathOf(SourcePath)
CmdPaths == Paths \cup {TempPath}
(* the destinations asked for: none, the source itself, another file, and
   the very path an in-place call uses for its temp file *)
Dests == {None, Some(SourcePath), Some(DestPath), Some(TempPath)}

(* the instance lists of the commands: highlights and ink, MaxCmdAnnots long *)
MaxCmdAnnots == 1
CmdTemplates == {1, 4}
CmdAnnotationLists ==
    UNION {[1..n -> CmdTemplates \X PageIndexes] : n \in 0..MaxCmdAnnots}

(* a rectangle that matches pool object 1 and 2, and one that matches 3 *)
CmdRects == {Rect0, Rect1}

CmdFiles(source, temp) ==
    [p \in CmdPaths |-> IF p = SourcePath THEN source ELSE IF p = TempPath THEN temp ELSE NoFile]

CmdInit ==
    /\ \E c1 \in 1..Len(PageConfigs), c2 \in EvenConfigs :
          LET c == [p \in 1..NumPages |-> IF p % 2 = 1 THEN c1 ELSE c2] IN
          files \in {CmdFiles(SourceDocument(c), NoFile),
                     CmdFiles(SourceDocument(c), SourceDocument(c)),
                     CmdFiles(Garbage, NoFile)}
    /\ last = NoCall
    /\ NothingElse

CmdGetAnnotations ==
    \E path \in CmdPaths :
        /\ Elsewhere
        /\ files' = files
        /\ last' = Call("commands::get_annotations", path, None, <<>>, 0, Rect0,
                        CommandOutcome(commands_get_annotations(files, path), files, "",
                                       Outcome(get_annotations(files[path]), 0, FALSE, NoFile)))

CmdSaveAnnotations ==
    \E dest \in Dests, l \in CmdAnnotationLists,
       save \in SaveResults, rename_ok \in BOOLEAN :
      \E clock \in Clocks(Len(l)) :
        LET out == commands_save_annotations(files, SourcePath, dest, InstancesOf(l),
                                             clock, save, rename_ok)
        IN  /\ Elsewhere
            /\ last.op = "none"
            /\ files' = out.fs
            /\ last' = Call("commands::save_annotations", SourcePath, dest,
                            InstancesOf(l), 0, Rect0, out)

CmdRemoveAnnotation ==
    \E dest \in Dests, page_index \in PageIndexes, rect \in CmdRects,
       save \in SaveResults, rename_ok \in BOOLEAN, remove_ok \in BOOLEAN :
        LET out == commands_remove_annotation(files, SourcePath, dest, page_index, rect,
                                              save, rename_ok, remove_ok)
        IN  /\ Elsewhere
            /\ last.op = "none"
            /\ files' = out.fs
            /\ last' = Call("commands::remove_annotation", SourcePath, dest, <<>>,
                            page_index, rect, out)

CmdClearPageAnnotations ==
    \E dest \in Dests, page_index \in PageIndexes,
       save \in SaveResults, rename_ok \in BOOLEAN, remove_ok \in BOOLEAN :
        LET out == commands_clear_page_annotations(files, SourcePath, dest, page_index,
                                                   save, rename_ok, remove_ok)
        IN  /\ Elsewhere
            /\ last.op = "none"
            /\ files' = out.fs
            /\ last' = Call("commands::clear_page_annotations", SourcePath, dest, <<>>,
                            page_index, Rect0, out)

CmdNext ==
    \/ CmdGetAnnotations
    \/ CmdSaveAnnotations
    \/ CmdRemoveAnnotation
    \/ CmdClearPageAnnotations

CmdSpec == CmdInit /\ [][CmdNext]_vars

----------------------------------------------------------------------------
(* Text rectangles of the renderer *)

MaxRects == 3

TextRect(x, y, width, height) == [x |-> x, y |-> y, width |-> width, height |-> height]

Max(a, b) == TheOne({IF Less(p, q) THEN q ELSE p : p \in {a}, q \in {b}})

SameLineTolerance == Whole(2)

(* the loop of merge_text_rects from rects[i] on that compares each rectangle
   with the one before it *)
RECURSIVE MergeFrom_ChainsLines(_, _, _, _)
MergeFrom_ChainsLines(rects, i, current, out) ==
    IF i > Len(rects) THEN Append(out, current)
    ELSE IF Less(Abs(AsF32(Minus(rects[i].y, current.y))), SameLineTolerance)
    THEN MergeFrom_ChainsLines(rects, i + 1,
             [x |-> current.x, y |-> rects[i].y,
              width |-> AsF32(Minus(Max(AsF32(Plus(rects[i].x, rects[i].width)),
                                        AsF32(Plus(current.x, current.width))),
                                    current.x)),
              height |-> Max(current.height, rects[i].height)],
             out)
    ELSE MergeFrom_ChainsLines(rects, i + 1, rects[i], Append(out, current))

(* the loop of merge_text_rects from rects[i] on: current is the rectangle
   being extended, out the rectangles already pushed *)
RECURSIVE MergeFrom(_, _, _, _)
MergeFrom(rects, i, current, out) ==
    IF i > Len(rects) THEN Append(out, current)
    ELSE IF Less(Abs(AsF32(Minus(rects[i].y, current.y))), SameLineTolerance)
    THEN MergeFrom(rects, i + 1,
             [x |-> current.x, y |-> current.y,
              width |-> AsF32(Minus(Max(AsF32(Plus(rects[i].x, rects[i].width)),
                                        AsF32(Plus(current.x, current.width))),
                                    current.x)),
              height |-> Max(current.height, rects[i].height)],
             out)
    ELSE MergeFrom(rects, i + 1, rects[i], Append(out, current))

merge_text_rects(rects) ==
    IF rects = <<>> THEN rects ELSE MergeFrom(rects, 2, rects[1], <<>>)

(* rectangles of three columns, of four lines of which the first three are
   one unit apart, and of two sizes *)
TextXs == {0, 10, 20}
TextYs == {10, 11, 12, 30}
TextSizes == {<<10, 12>>, <<25, 14>>}

TextRects ==
    {TextRect(Whole(x), Whole(y), Whole(sz[1]), Whole(sz[2])) :
        x \in TextXs, y \in TextYs, sz \in TextSizes}

TextRectLists == UNION {[1..n -> TextRects] : n \in 0..MaxRects}

MergeInit ==
    /\ text_rects \in TextRectLists
    /\ merged = None
    /\ files = [p \in Paths |-> NoFile]
    /\ last = NoCall
    /\ procs = <<>>

MergeTextRects ==
    /\ merged = None
    /\ merged' = Some(merge_text_rects(text_rects))
    /\ UNCHANGED <<files, last, procs, text_rects>>

MergeNext == MergeTextRects

MergeSpec == MergeInit /\ [][MergeNext]_vars

----------------------------------------------------------------------------
(* In-place commands whose steps interleave *)

NumProcs == 2

Procs == 1..NumProcs

(* A command that has not been called.  pc is where the command stands;
   loaded is the content Document::load read and core the outcome of the
   edit made on it in memory; fd is the path under which the file opened by
   doc.save is found at present ("" when the file is closed or has lost its
   name) and clean whether no other writer has touched that file since;
   overlapped records that the command started while another was running,
   touched that one of its own steps changed the source file. *)
NotCalled ==
    [pc |-> "start", op |-> "none", annotations |-> <<>>, page_index |-> 0,
     rect |-> Rect0, loaded |-> NoFile, core |-> Outcome(Ok(<<>>), 0, FALSE, NoFile),
     fd |-> "", clean |-> TRUE, overlapped |-> FALSE, touched |-> FALSE,
     result |-> Ok(<<>>)]

InProgress(i) == procs[i].pc \notin {"start", "done"}

(* the commands that stand at pc *)
At(pc) == {i \in Procs : procs[i].pc = pc}

OthersInProgress(i) == \E j \in Procs \ {i} : InProgress(j)

(* the one instance command i adds: a different one for each command *)
RaceInstances(i) == <<Instance(((i + 1) % Len(Templates)) + 1, 0)>>

(* a rectangle that matches an annotation of the first page, and one that
   matches none *)
RaceRects == {Rect0, [x1 |-> Whole(0), y1 |-> Whole(0), x2 |-> Whole(1), y2 |-> Whole(1)]}

(* command i once the core has loaded the source and edited it in memory: an
   error returns at once through `?`, an edit goes on to doc.save, and a
   remove or clear that changed nothing returns to the command *)
AfterLoad(i, op, annotations, page_index, rect, core) ==
    [procs EXCEPT ![i] =
        [pc |-> IF ~core.result.ok THEN "done"
                ELSE IF core.written THEN "loaded" ELSE "saved",
         op |-> op, annotations |-> annotations, page_index |-> page_index,
         rect |-> rect, loaded |-> files[SourcePath], core |-> core,
         fd |-> "", clean |-> TRUE, overlapped |-> OthersInProgress(i),
         touched |-> FALSE, result |-> MapErr(core.result)]]

(* the writers other than i that hold the file at path open *)
Disturbed(i, path, pr) ==
    [j \in Procs |-> IF j # i /\ path # "" /\ pr[j].fd = path
                     THEN [pr[j] EXCEPT !.clean = FALSE] ELSE pr[j]]

(* where the open files are found after the temp file got the source's name,
   or lost its own *)
Renamed(pr) ==
    [j \in Procs |-> [pr[j] EXCEPT !.fd = IF @ = TempPath THEN SourcePath
                                          ELSE IF @ = SourcePath THEN "" ELSE @]]

Removed(pr) ==
    [j \in Procs |-> [pr[j] EXCEPT !.fd = IF @ = TempPath THEN "" ELSE @]]

(* The source is a document whose first page has a direct or an indirect
   Annots array and whose other pages have none; no temp file is left over;
   no command has been called. *)
RaceConfigs == {2, 5}

RaceInit ==
    /\ \E c1 \in RaceConfigs :
          files = CmdFiles(SourceDocument([p \in 1..NumPages |-> IF p = 1 THEN c1 ELSE 1]),
                           NoFile)
    /\ last = [NoCall EXCEPT !.before = files]
    /\ procs = [i \in Procs |-> NotCalled]
    /\ text_rects = <<>>
    /\ merged = None

(* annotations::save_annotations up to doc.save: Document::load, then the
   edit in memory *)
RaceLoadSave ==
    \E i \in At("start"), clock \in Clocks(1) :
        \E core \in {save_annotations(files[SourcePath], TempPath, RaceInstances(i), clock, "saved")} :
            /\ procs[i].pc = "start"
            /\ procs' = AfterLoad(i, "commands::save_annotations", RaceInstances(i), 0, Rect0, core)
            /\ UNCHANGED <<files, last, text_rects, merged>>

RaceLoadRemove ==
    \E i \in At("start"), rect \in RaceRects :
        \E core \in {remove_annotation(files[SourcePath], TempPath, 0, rect, "saved")} :
            /\ procs[i].pc = "start"
            /\ procs' = AfterLoad(i, "commands::remove_annotation", <<>>, 0, rect, core)
            /\ UNCHANGED <<files, last, text_rects, merged>>

RaceLoadClear ==
    \E i \in At("start"), page_index \in PageIndexes :
        \E core \in {clear_page_annotations(files[SourcePath], TempPath, page_index, "saved")} :
            /\ procs[i].pc = "start"
            /\ procs' = AfterLoad(i, "commands::clear_page_annotations", <<>>, page_index,
                                  Rect0, core)
            /\ UNCHANGED <<files, last, text_rects, merged>>

(* doc.save opens the temp path: the file is created, or truncated when it
   is there *)
RaceCreate ==
    \E i \in At("loaded") :
        /\ procs[i].pc = "loaded"
        /\ files' = [files EXCEPT ![TempPath] = Partial]
        /\ procs' = [Disturbed(i, TempPath, procs) EXCEPT
                        ![i] = [@ EXCEPT !.pc = "writing", !.fd = TempPath, !.clean = TRUE]]
        /\ UNCHANGED <<last, text_rects, merged>>

(* doc.save has written the graph and closes the file: the file holds the
   document, unless another writer has truncated or written the same file
   meanwhile, and then it may hold a mix of the two *)
RaceWrite ==
    \E i \in At("writing") :
        \E content \in (IF procs[i].clean THEN {procs[i].core.graph}
                         ELSE {procs[i].core.graph, Garbage}) :
            /\ procs[i].pc = "writing"
            /\ files' = IF procs[i].fd = "" THEN files
                        ELSE [files EXCEPT ![procs[i].fd] = content]
            /\ procs' = [Disturbed(i, procs[i].fd, procs) EXCEPT
                            ![i] = [@ EXCEPT !.pc = "saved", !.fd = "",
                                             !.touched = (procs[i].fd = SourcePath)]]
            /\ UNCHANGED <<last, text_rects, merged>>

(* what the command does after the core has returned Ok: rename of the temp
   file over the source after an edit, remove_file of the temp file after a
   remove or clear that changed nothing.  The commands run in place (no
   destination); the rename fails when the temp path holds no file, and the
   directory lets go of a file that is there *)
FinishOf(pr, fs) ==
    CASE pr.op = "commands::save_annotations" ->
             FinishSave(fs, SourcePath, None, pr.core, fs[TempPath] # NoFile)
      [] pr.op = "commands::remove_annotation" ->
             FinishRemove(fs, SourcePath, None, pr.core, fs[TempPath] # NoFile, TRUE)
      [] pr.op = "commands::clear_page_annotations" ->
             FinishClear(fs, SourcePath, None, pr.core, fs[TempPath] # NoFile, TRUE)

RaceFinish ==
    \E i \in At("saved") :
        \E out \in {FinishOf(procs[i], files)} :
            /\ procs[i].pc = "saved"
            /\ files' = out.fs
            /\ procs' = [(IF ~out.result.ok THEN procs
                          ELSE IF procs[i].core.written THEN Renamed(procs)
                          ELSE Removed(procs)) EXCEPT
                            ![i] = [@ EXCEPT !.pc = "done", !.result = out.result,
                                             !.touched = @ \/ (out.result.ok /\ procs[i].core.written)]]
            /\ UNCHANGED <<last, text_rects, merged>>

RaceNext ==
    \/ RaceLoadSave
    \/ RaceLoadRemove
    \/ RaceLoadClear
    \/ RaceCreate
    \/ RaceWrite
    \/ RaceFinish

RaceSpec == RaceInit /\ [][RaceNext]_vars

----------------------------------------------------------------------------
(* Vocabulary of the properties *)

Op == last.op
Result == last.outcome.result
SourceFile == last.before[last.source_path]
DestFile == files[last.dest_path]
IsWriteCall == Op \in {"save_annotations", "remove_annotation", "clear_page_annotations"}

(* the dictionary of page number p (1-based) *)
PageDict(doc, p) == doc.objects[doc.pages[p]].d

(* the entries of page p's annotation list, read through either form *)
Entries(doc, p) ==
    LET d == PageDict(doc, p)
    IN  IF "Annots" \notin DOMAIN d THEN <<>>
        ELSE IF d["Annots"].t = "Array" THEN d["Annots"].a
        ELSE IF /\ d["Annots"].t = "Reference"
                /\ d["Annots"].id \in DOMAIN doc.objects
                /\ doc.objects[d["Annots"].id].t = "Array"
             THEN doc.objects[d["Annots"].id].a
        ELSE <<>>

HasDirectAnnots(doc, p) ==
    "Annots" \in DOMAIN PageDict(doc, p) /\ PageDict(doc, p)["Annots"].t = "Array"

(* doc with the direct Annots array of page p moved into a new indirect
   object that the page references *)
MadeIndirect(doc, p) ==
    LET moved == Len(doc.objects) + 1
        page == [t |-> "Dictionary",
                 d |-> [k \in DOMAIN PageDict(doc, p) |->
                          IF k = "Annots" THEN [t |-> "Reference", id |-> moved]
                          ELSE PageDict(doc, p)[k]]]
    IN  [doc EXCEPT !.objects =
            [i \in 1..moved |-> IF i = moved THEN PageDict(doc, p)["Annots"]
                                ELSE IF i = doc.pages[p] THEN page
                                ELSE doc.objects[i]]]

----------------------------------------------------------------------------
(* C1: round trip.  After a successful add, decoding the written destination
   succeeds and returns, for every added instance, an instance with the same
   type, page, rect, color, opacity, contents, quad points and ink strokes. *)

RoundTripped(a, d) ==
    /\ d.annotation_type = a.annotation_type
    /\ d.page = a.page
    /\ d.rect = a.rect
    /\ d.color = a.color
    /\ d.opacity = a.opacity
    /\ d.contents = a.contents
    /\ d.quad_points = a.quad_points
    /\ d.ink_paths = a.ink_paths

C1_RoundTrip ==
    (Op = "save_annotations" /\ Result.ok) =>
        LET decoded == get_annotations(DestFile)
        IN  /\ decoded.ok
            /\ \A i \in DOMAIN last.annotations :
                  \E j \in DOMAIN decoded.val :
                      RoundTripped(last.annotations[i], decoded.val[j])

(* C2: both forms of Annots decode alike.  Decoding a document gives the same
   result as decoding it with the direct Annots array of any one page turned
   into an indirect reference to that array. *)
C2_BothFormsDecodeAlike ==
    (Op = "get_annotations" /\ Loadable(SourceFile)) =>
        \A p \in DOMAIN SourceFile.pages :
            HasDirectAnnots(SourceFile, p) =>
                Result = get_annotations(MadeIndirect(SourceFile, p))

(* C3: decode fails only on load.  Decoding any loadable document returns Ok,
   whatever its Annots values and entries look like. *)
C3_DecodeFailsOnlyOnLoad ==
    (Op = "get_annotations" /\ Loadable(SourceFile)) => Result.ok

----------------------------------------------------------------------------
(* Reading the graph, for the properties of the write calls *)

(* page number (1-based) of the page index a remove or clear call was given *)
TargetPage == last.page_index + 1
ValidIndex(doc, page_index) == page_index + 1 \in DOMAIN doc.pages

(* the instances of the input list that target page number p, in input order *)
InstancesFor(p) ==
    LET Mine(a) == a.page = p - 1 IN SelectSeq(last.annotations, Mine)

NumberOf(o) ==
    IF o.t = "Integer" THEN <<Whole(o.i)>>
    ELSE IF o.t = "Real" THEN <<o.f>>
    ELSE <<>>

ResolvesToDict(doc, e) ==
    e.t = "Reference" /\ e.id \in DOMAIN doc.objects /\ doc.objects[e.id].t = "Dictionary"

(* the Rect stored in the dictionary an entry refers to, when it is four numbers *)
HasStoredRect(doc, e) ==
    /\ ResolvesToDict(doc, e)
    /\ "Rect" \in DOMAIN doc.objects[e.id].d
    /\ doc.objects[e.id].d["Rect"].t = "Array"
    /\ Len(doc.objects[e.id].d["Rect"].a) = 4
    /\ \A k \in 1..4 : NumberOf(doc.objects[e.id].d["Rect"].a[k]) # <<>>

StoredRect(doc, e) ==
    LET a == doc.objects[e.id].d["Rect"].a
    IN  [x1 |-> NumberOf(a[1])[1], y1 |-> NumberOf(a[2])[1],
         x2 |-> NumberOf(a[3])[1], y2 |-> NumberOf(a[4])[1]]

(* every coordinate differs by strictly less than 1.0 *)
Within(s, r) ==
    /\ Less(Minus(s.x1, r.x1), Whole(1)) /\ Less(Minus(r.x1, s.x1), Whole(1))
    /\ Less(Minus(s.y1, r.y1), Whole(1)) /\ Less(Minus(r.y1, s.y1), Whole(1))
    /\ Less(Minus(s.x2, r.x2), Whole(1)) /\ Less(Minus(r.x2, s.x2), Whole(1))
    /\ Less(Minus(s.y2, r.y2), Whole(1)) /\ Less(Minus(r.y2, s.y2), Whole(1))

IsMatch(doc, e, r) == HasStoredRect(doc, e) /\ Within(StoredRect(doc, e), r)

MatchingEntries(doc, p, r) ==
    {i \in DOMAIN Entries(doc, p) : IsMatch(doc, Entries(doc, p)[i], r)}

NonMatching(doc, p, r) ==
    LET NotAMatch(e) == ~IsMatch(doc, e, r) IN SelectSeq(Entries(doc, p), NotAMatch)

SubtypeOf(type) == IF type = "Strikethrough" THEN "StrikeOut" ELSE type

(* obj is an annotation dictionary encoding instance a *)
Encodes(obj, a) ==
    /\ obj.t = "Dictionary"
    /\ obj.d["Subtype"] = [t |-> "Name", n |-> SubtypeOf(a.annotation_type)]
    /\ obj.d["Rect"].a = <<[t |-> "Real", f |-> AsF32(a.rect.x1)],
                           [t |-> "Real", f |-> AsF32(a.rect.y1)],
                           [t |-> "Real", f |-> AsF32(a.rect.x2)],
                           [t |-> "Real", f |-> AsF32(a.rect.y2)]>>

----------------------------------------------------------------------------
(* C4: add appends.  In the document a successful add wrote, the Annots of
   every page that received instances is the page's previous entries in their
   order, followed by references to distinct new objects that encode the
   page's instances in input order. *)
C4_AddAppendsInOrder ==
    (Op = "save_annotations" /\ Result.ok) =>
        \A p \in DOMAIN SourceFile.pages :
            LET mine == InstancesFor(p)
                prev == Entries(SourceFile, p)
                d == PageDict(DestFile, p)
            IN  mine # <<>> =>
                  /\ "Annots" \in DOMAIN d
                  /\ d["Annots"].t = "Array"
                  /\ Len(d["Annots"].a) = Len(prev) + Len(mine)
                  /\ SubSeq(d["Annots"].a, 1, Len(prev)) = prev
                  /\ \A k \in DOMAIN mine :
                        LET e == d["Annots"].a[Len(prev) + k]
                        IN  /\ e.t = "Reference"
                            /\ e.id > Len(SourceFile.objects)
                            /\ e.id <= Len(DestFile.objects)
                            /\ Encodes(DestFile.objects[e.id], mine[k])
                            /\ \A k2 \in DOMAIN mine :
                                  k2 # k => d["Annots"].a[Len(prev) + k2] # e

C4_Witness ==
    /\ Op = "save_annotations" /\ Result.ok
    /\ \E p \in DOMAIN SourceFile.pages :
          /\ "Annots" \in DOMAIN PageDict(SourceFile, p)
          /\ PageDict(SourceFile, p)["Annots"].t = "Reference"
          /\ Len(Entries(SourceFile, p)) >= 2
          /\ Len(InstancesFor(p)) >= 2
          /\ InstancesFor(p)[1].annotation_type # InstancesFor(p)[2].annotation_type
          /\ Len(Entries(DestFile, p)) = Len(Entries(SourceFile, p)) + Len(InstancesFor(p))

(* C5: an invalid page index writes nothing.  On a loadable source, a write
   call given a page index beyond the last page (for add: anywhere in the
   list) returns InvalidPage of the lowest such index, never serializes and
   leaves the destination path without a file. *)
InvalidAsked ==
    LET asked == IF Op = "save_annotations"
                 THEN {last.annotations[i].page : i \in DOMAIN last.annotations}
                 ELSE {last.page_index}
    IN  {i \in asked : ~ValidIndex(SourceFile, i)}

C5_InvalidPageWritesNothing ==
    (IsWriteCall /\ Loadable(SourceFile) /\ InvalidAsked # {}) =>
        /\ ~Result.ok
        /\ Len(Result.err) = 2
        /\ Result.err[1] = "InvalidPage"
        /\ Result.err[2] \in InvalidAsked
        /\ \A i \in InvalidAsked : Result.err[2] <= i
        /\ last.outcome.save_calls = 0
        /\ DestFile = NoFile
        /\ files = last.before

C5_Witness ==
    /\ Op = "save_annotations"
    /\ Loadable(SourceFile)
    /\ Len(last.annotations) >= 2
    /\ ~ValidIndex(SourceFile, last.annotations[1].page)
    /\ ValidIndex(SourceFile, last.annotations[2].page)
    /\ Entries(SourceFile, last.annotations[2].page + 1) # <<>>
    /\ ErrKind(Result) = "InvalidPage"
    /\ DestFile = NoFile

(* C6: no partial destination.  A write call serializes at most once, and
   whatever it returns (success, LoadError, InvalidPage, SaveError) it has
   either not written the destination at all or left there the complete
   graph the call ended with, carrying every requested edit. *)
AllEditsApplied ==
    CASE Op = "save_annotations" ->
           /\ Len(DestFile.objects) = Len(SourceFile.objects) + Len(last.annotations)
           /\ \A p \in DOMAIN SourceFile.pages :
                 Len(Entries(DestFile, p)) =
                     Len(Entries(SourceFile, p)) + Len(InstancesFor(p))
      [] Op = "remove_annotation" ->
           MatchingEntries(DestFile, TargetPage, last.rect) = {}
      [] Op = "clear_page_annotations" ->
           "Annots" \notin DOMAIN PageDict(DestFile, TargetPage)

C6_NoPartialDestination ==
    IsWriteCall =>
        /\ last.outcome.save_calls <= 1
        /\ \/ files = last.before
           \/ /\ last.outcome.save_calls = 1
              /\ DestFile = last.outcome.graph
              /\ AllEditsApplied

(* what does hold of a write call: the destination is untouched, or complete
   after a success, or created and incomplete after a SaveError *)
WholeUnlessSaveFailed ==
    IsWriteCall =>
        /\ last.outcome.save_calls <= 1
        /\ \/ files = last.before
           \/ /\ last.outcome.save_calls = 1
              /\ Result.ok
              /\ DestFile = last.outcome.graph
              /\ AllEditsApplied
           \/ /\ last.outcome.save_calls = 1
              /\ ErrKind(Result) = "SaveError"
              /\ DestFile = Partial
              /\ \A p \in DOMAIN files : p # last.dest_path => files[p] = last.before[p]

(* an add whose doc.save created the destination and failed in the write *)
PartialDestinationLeft ==
    /\ Op = "save_annotations"
    /\ ErrKind(Result) = "SaveError"
    /\ last.before[last.dest_path] = NoFile
    /\ DestFile = Partial

C6_Witness ==
    /\ Op = "save_annotations" /\ Result.ok
    /\ Len(last.annotations) >= 2
    /\ last.annotations[1].page > last.annotations[2].page
    /\ DestFile # NoFile
    /\ Len(Entries(DestFile, last.annotations[1].page + 1))
          > Len(Entries(SourceFile, last.annotations[1].page + 1))
    /\ Len(Entries(DestFile, last.annotations[2].page + 1))
          > Len(Entries(SourceFile, last.annotations[2].page + 1))

(* the Annots array a successful remove left on the target page: the written
   one when something was removed, the source's entries otherwise *)
KeptEntries ==
    IF Result.val THEN Entries(DestFile, TargetPage) ELSE Entries(SourceFile, TargetPage)

(* C7: tolerance of remove.  An entry of the target page that stores a
   four-number Rect is gone after remove exactly when every coordinate of
   that Rect is less than 1.0 away from the requested one. *)
C7_RemoveTolerance ==
    (Op = "remove_annotation" /\ Result.ok) =>
        \A i \in DOMAIN Entries(SourceFile, TargetPage) :
            LET e == Entries(SourceFile, TargetPage)[i]
            IN  HasStoredRect(SourceFile, e) =>
                  ((\A k \in DOMAIN KeptEntries : KeptEntries[k] # e)
                      <=> Within(StoredRect(SourceFile, e), last.rect))

(* removed with every coordinate one unit short of 1.0 away *)
C7_Witness ==
    /\ Op = "remove_annotation" /\ Result.ok
    /\ Result.val = TRUE
    /\ last.rect = [x1 |-> Plus(Rect0.x1, JustShort), y1 |-> Plus(Rect0.y1, JustShort),
                    x2 |-> Plus(Rect0.x2, JustShort), y2 |-> Plus(Rect0.y2, JustShort)]
    /\ Len(Entries(DestFile, TargetPage)) < Len(Entries(SourceFile, TargetPage))

(* C8: remove drops every match.  A successful remove returns true exactly
   when some entry of the target page matched, and then the written array has
   lost all the matching entries, not only the first. *)
C8_RemoveDropsEveryMatch ==
    (Op = "remove_annotation" /\ Result.ok) =>
        LET matches == MatchingEntries(SourceFile, TargetPage, last.rect)
        IN  /\ Result.val = (matches # {})
            /\ Result.val =>
                  /\ Len(Entries(DestFile, TargetPage))
                        = Len(Entries(SourceFile, TargetPage)) - Cardinality(matches)
                  /\ MatchingEntries(DestFile, TargetPage, last.rect) = {}

C8_Witness ==
    /\ Op = "remove_annotation" /\ Result.ok
    /\ Cardinality(MatchingEntries(SourceFile, TargetPage, last.rect)) >= 2
    /\ Result.val = TRUE
    /\ DestFile # NoFile

(* C9: remove keeps the rest.  The array a remove wrote is the previous array
   without its matches: entries that do not resolve to a dictionary, that lack
   a four-number Rect or that are out of tolerance stay, in their order. *)
C9_RemoveKeepsTheRest ==
    (Op = "remove_annotation" /\ Result.ok /\ Result.val) =>
        Entries(DestFile, TargetPage) = NonMatching(SourceFile, TargetPage, last.rect)

C9_Witness ==
    /\ Op = "remove_annotation" /\ Result.ok
    /\ Result.val = TRUE
    /\ \E i, j, k \in DOMAIN Entries(DestFile, TargetPage) :
          /\ i < j /\ j < k
          /\ ~ResolvesToDict(DestFile, Entries(DestFile, TargetPage)[i])
          /\ ~ResolvesToDict(DestFile, Entries(DestFile, TargetPage)[j])
          /\ ResolvesToDict(DestFile, Entries(DestFile, TargetPage)[k])
          /\ ~HasStoredRect(DestFile, Entries(DestFile, TargetPage)[k])

(* C10: remove writes only when it removed.  With no match on the target page
   remove returns false and does not serialize; with a match it serializes
   once and, when that succeeds, returns true and the destination's page holds
   the filtered entries as a direct array. *)
C10_RemoveWritesOnlyOnMatch ==
    (Op = "remove_annotation" /\ Loadable(SourceFile)
        /\ ValidIndex(SourceFile, last.page_index)) =>
        IF MatchingEntries(SourceFile, TargetPage, last.rect) = {}
        THEN /\ Result = Ok(FALSE)
             /\ last.outcome.save_calls = 0
             /\ DestFile = NoFile
             /\ files = last.before
        ELSE /\ last.outcome.save_calls = 1
             /\ Result.ok =>
                   /\ Result.val = TRUE
                   /\ PageDict(DestFile, TargetPage)["Annots"] =
                         [t |-> "Array",
                          a |-> NonMatching(SourceFile, TargetPage, last.rect)]
             /\ ~Result.ok => (ErrKind(Result) = "SaveError" /\ DestFile \in {NoFile, Partial})

C10_Witness ==
    /\ Op = "remove_annotation"
    /\ Loadable(SourceFile)
    /\ ValidIndex(SourceFile, last.page_index)
    /\ "Annots" \notin DOMAIN PageDict(SourceFile, TargetPage)
    /\ Result = Ok(FALSE)
    /\ DestFile = NoFile

(* C11: clear semantics.  Clear returns the number of entries of the target
   page's Annots array, read through either form.  When that number is
   positive it serializes once and the written page has no Annots key: the
   page decodes to no annotation and a second clear of the written file
   returns 0 without writing.  When it is zero, clear returns 0 and the
   destination is not written. *)
C11_ClearSemantics ==
    (Op = "clear_page_annotations" /\ Loadable(SourceFile)
        /\ ValidIndex(SourceFile, last.page_index)) =>
        IF Len(Entries(SourceFile, TargetPage)) = 0
        THEN /\ Result = Ok(0)
             /\ last.outcome.save_calls = 0
             /\ DestFile = NoFile
             /\ files = last.before
        ELSE /\ last.outcome.save_calls = 1
             /\ ~Result.ok => (ErrKind(Result) = "SaveError" /\ DestFile \in {NoFile, Partial})
             /\ Result.ok =>
                   /\ Result.val = Len(Entries(SourceFile, TargetPage))
                   /\ "Annots" \notin DOMAIN PageDict(DestFile, TargetPage)
                   /\ DecodePage(DestFile, TargetPage) = Ok(<<>>)
                   /\ LET decoded == get_annotations(DestFile)
                      IN  decoded.ok =>
                            \A k \in DOMAIN decoded.val :
                                decoded.val[k].page # last.page_index
                   /\ LET again == clear_page_annotations(DestFile, last.dest_path,
                                                          last.page_index, "saved")
                      IN  again.result = Ok(0) /\ ~again.written

(* an indirect array of seven entries cleared *)
C11_Witness ==
    /\ Op = "clear_page_annotations" /\ Result.ok
    /\ "Annots" \in DOMAIN PageDict(SourceFile, TargetPage)
    /\ PageDict(SourceFile, TargetPage)["Annots"].t = "Reference"
    /\ Result.val = 7
    /\ DestFile # NoFile
    /\ "Annots" \notin DOMAIN PageDict(DestFile, TargetPage)

----------------------------------------------------------------------------
(* The commands, for the properties of CmdSpec *)

IsEditCommand ==
    Op \in {"commands::save_annotations", "commands::remove_annotation",
            "commands::clear_page_annotations"}

(* no destination, or the source itself *)
InPlace == last.dest_path = <<>> \/ last.dest_path = <<last.source_path>>

TempOfSource == last.source_path \o ".tmp"

(* the command changed the document: an add, a remove that found something,
   a clear that counted something *)
Edited ==
    \/ Op = "commands::save_annotations"
    \/ Op = "commands::remove_annotation" /\ Result.val = TRUE
    \/ Op = "commands::clear_page_annotations" /\ Result.val > 0

(* doc carries the edit the command asked for on the document before *)
CarriesEdit(doc, before) ==
    /\ doc.kind = "pdf"
    /\ CASE Op = "commands::save_annotations" ->
              /\ Len(doc.objects) = Len(before.objects) + Len(last.annotations)
              /\ \A p \in DOMAIN before.pages :
                    Len(Entries(doc, p)) = Len(Entries(before, p)) + Len(InstancesFor(p))
         [] Op = "commands::remove_annotation" ->
              /\ MatchingEntries(before, TargetPage, last.rect) # {}
              /\ Entries(doc, TargetPage) = NonMatching(before, TargetPage, last.rect)
         [] Op = "commands::clear_page_annotations" ->
              /\ Entries(before, TargetPage) # <<>>
              /\ "Annots" \notin DOMAIN PageDict(doc, TargetPage)

(* C12: in-place save protocol.  A command with no destination, or with the
   source as destination, hands the core the path <source>.tmp.  When it
   succeeds with an edit (an add, a remove that returned true, a clear that
   returned a positive count) the temp path holds no file and the source path
   holds the edited document; when it succeeds without one (remove false,
   clear 0) the source file is as before and the temp path holds no file. *)
C12_InPlaceProtocol ==
    (IsEditCommand /\ InPlace) =>
        /\ last.outcome.core_dest = TempOfSource
        /\ (Result.ok /\ Edited) =>
              /\ files[TempOfSource] = NoFile
              /\ files[last.source_path] = last.outcome.core.graph
              /\ CarriesEdit(files[last.source_path], SourceFile)
        /\ (Result.ok /\ ~Edited) =>
              /\ files[TempOfSource] = NoFile
              /\ files[last.source_path] = SourceFile

(* what holds of an in-place command whatever remove_file does: the core is
   handed <source>.tmp, an edit ends with the temp path empty and the edited
   document under the source path, and a command without an edit leaves the
   source file as before *)
InPlaceRenames ==
    (IsEditCommand /\ InPlace) =>
        /\ last.outcome.core_dest = TempOfSource
        /\ (Result.ok /\ Edited) =>
              /\ files[TempOfSource] = NoFile
              /\ files[last.source_path] = last.outcome.core.graph
              /\ CarriesEdit(files[last.source_path], SourceFile)
        /\ (Result.ok /\ ~Edited) => files[last.source_path] = SourceFile

(* an in-place remove that found nothing returns Ok(false) and the temp file
   that lay there before the call is still there *)
StaleTempSurvives ==
    /\ Op = "commands::remove_annotation"
    /\ last.dest_path = <<>>
    /\ last.before[TempOfSource] # NoFile
    /\ Result = Ok(FALSE)
    /\ files[TempOfSource] = last.before[TempOfSource]

----------------------------------------------------------------------------
(* The objects an add created, for the properties of the encoder *)

(* the object created for the k-th instance of page number p: the one the
   k-th reference after the page's previous entries points to *)
NewObjectFor(p, k) ==
    DestFile.objects[Entries(DestFile, p)[Len(Entries(SourceFile, p)) + k].id]

(* references of the written pages to objects the source did not have *)
NewReferences ==
    {<<p, k>> \in (DOMAIN DestFile.pages) \X (1..(2 * NumPages + PoolSize + MaxAnnots)) :
        /\ k \in DOMAIN Entries(DestFile, p)
        /\ Entries(DestFile, p)[k].t = "Reference"
        /\ Entries(DestFile, p)[k].id > Len(SourceFile.objects)}

(* a number as the file holds it: a single-precision real *)
OnDisk(v) == [t |-> "Real", f |-> AsF32(v)]

(* x and y of the points, one after the other *)
Coordinates(points) ==
    [i \in 1..(2 * Len(points)) |->
        IF i % 2 = 1 THEN points[(i + 1) \div 2].x ELSE points[i \div 2].y]

(* C13: page isolation on add.  A page that no instance of the input list
   targets has, in the written document, the same page object (so the same
   Annots value) and the same annotation entries as in the source. *)
C13_PageIsolation ==
    (Op = "save_annotations" /\ Result.ok) =>
        \A p \in DOMAIN SourceFile.pages :
            InstancesFor(p) = <<>> =>
                /\ DestFile.pages[p] = SourceFile.pages[p]
                /\ DestFile.objects[DestFile.pages[p]] = SourceFile.objects[SourceFile.pages[p]]
                /\ Entries(DestFile, p) = Entries(SourceFile, p)

(* instances on the second page only, the first holding an indirect array *)
C13_Witness ==
    /\ Op = "save_annotations" /\ Result.ok
    /\ InstancesFor(1) = <<>>
    /\ InstancesFor(2) # <<>>
    /\ "Annots" \in DOMAIN PageDict(SourceFile, 1)
    /\ PageDict(SourceFile, 1)["Annots"].t = "Reference"
    /\ Len(Entries(SourceFile, 1)) >= 2
    /\ PageDict(DestFile, 1) = PageDict(SourceFile, 1)
    /\ Len(Entries(DestFile, 2)) > Len(Entries(SourceFile, 2))

(* C14: add reports what it wrote.  A successful add returns success = true,
   path = dest_path and a count equal to the length of the input list; the
   written graph has that many objects more than the source, and its pages
   hold that many references to new objects. *)
C14_AddReportsCount ==
    (Op = "save_annotations" /\ Result.ok) =>
        /\ Result.val.success = TRUE
        /\ Result.val.path = last.dest_path
        /\ Result.val.annotations_count = Len(last.annotations)
        /\ Len(DestFile.objects) - Len(SourceFile.objects) = Result.val.annotations_count
        /\ Cardinality(NewReferences) = Result.val.annotations_count
        /\ \A id \in (Len(SourceFile.objects) + 1)..Len(DestFile.objects) :
              /\ DestFile.objects[id].t = "Dictionary"
              /\ DestFile.objects[id].d["Type"] = [t |-> "Name", n |-> "Annot"]

(* two instances of one page and a count of two *)
C14_Witness ==
    /\ Op = "save_annotations" /\ Result.ok
    /\ Len(last.annotations) = 2
    /\ last.annotations[1].page = last.annotations[2].page
    /\ Result.val.annotations_count = 2
    /\ Len(DestFile.objects) = Len(SourceFile.objects) + 2

(* C15: default quad synthesis.  The object written for a Highlight,
   Underline or Strikethrough with no quad points holds QuadPoints =
   x1 y2 x2 y2 x1 y1 x2 y1 of its rect (top-left, top-right, bottom-left,
   bottom-right); with quad points it holds their coordinates in the order
   supplied.  The numbers are stored in single precision. *)
C15_QuadPoints ==
    (Op = "save_annotations" /\ Result.ok) =>
        \A p \in DOMAIN SourceFile.pages :
            \A k \in DOMAIN InstancesFor(p) :
                LET a == InstancesFor(p)[k]
                    obj == NewObjectFor(p, k)
                IN  a.annotation_type \in {"Highlight", "Underline", "Strikethrough"} =>
                      /\ "QuadPoints" \in DOMAIN obj.d
                      /\ obj.d["QuadPoints"].t = "Array"
                      /\ obj.d["QuadPoints"].a =
                            IF a.quad_points = <<>>
                            THEN <<OnDisk(a.rect.x1), OnDisk(a.rect.y2),
                                   OnDisk(a.rect.x2), OnDisk(a.rect.y2),
                                   OnDisk(a.rect.x1), OnDisk(a.rect.y1),
                                   OnDisk(a.rect.x2), OnDisk(a.rect.y1)>>
                            ELSE [i \in 1..(2 * Len(a.quad_points)) |->
                                     OnDisk(Coordinates(a.quad_points)[i])]

(* a Highlight of rect (10,10,50,30) without quad points, written as
   (10,30) (50,30) (10,10) (50,10), next to an Underline that brought its own *)
C15_Witness ==
    /\ Op = "save_annotations" /\ Result.ok
    /\ \E p \in DOMAIN SourceFile.pages :
          /\ Len(InstancesFor(p)) = 2
          /\ InstancesFor(p)[1].annotation_type = "Highlight"
          /\ InstancesFor(p)[1].quad_points = <<>>
          /\ InstancesFor(p)[1].rect = Rect0
          /\ NewObjectFor(p, 1).d["QuadPoints"].a =
                <<[t |-> "Real", f |-> Whole(10)], [t |-> "Real", f |-> Whole(30)],
                  [t |-> "Real", f |-> Whole(50)], [t |-> "Real", f |-> Whole(30)],
                  [t |-> "Real", f |-> Whole(10)], [t |-> "Real", f |-> Whole(10)],
                  [t |-> "Real", f |-> Whole(50)], [t |-> "Real", f |-> Whole(10)]>>
          /\ InstancesFor(p)[2].annotation_type = "Underline"
          /\ Len(InstancesFor(p)[2].quad_points) = 4
          /\ Len(NewObjectFor(p, 2).d["QuadPoints"].a) = 8

(* C24: ink encoding keeps every stroke.  The InkList written for an Ink
   instance is an array with one inner array per stroke supplied, in the
   order supplied, each holding the x and y of the stroke's points one after
   the other (twice as many numbers as points); a stroke without points
   becomes an empty inner array. *)
C24_InkKeepsEveryStroke ==
    (Op = "save_annotations" /\ Result.ok) =>
        \A p \in DOMAIN SourceFile.pages :
            \A k \in DOMAIN InstancesFor(p) :
                LET a == InstancesFor(p)[k]
                    obj == NewObjectFor(p, k)
                IN  a.annotation_type = "Ink" =>
                      /\ "InkList" \in DOMAIN obj.d
                      /\ obj.d["InkList"].t = "Array"
                      /\ Len(obj.d["InkList"].a) = Len(a.ink_paths)
                      /\ \A i \in DOMAIN a.ink_paths :
                            /\ obj.d["InkList"].a[i].t = "Array"
                            /\ Len(obj.d["InkList"].a[i].a) = 2 * Len(a.ink_paths[i])
                            /\ obj.d["InkList"].a[i].a =
                                  [j \in 1..(2 * Len(a.ink_paths[i])) |->
                                      OnDisk(Coordinates(a.ink_paths[i])[j])]

(* an Ink instance of three strokes, the second without points, written as
   an InkList of four numbers, none, and two *)
C24_Witness ==
    /\ Op = "save_annotations" /\ Result.ok
    /\ \E p \in DOMAIN SourceFile.pages :
          \E k \in DOMAIN InstancesFor(p) :
              /\ InstancesFor(p)[k].annotation_type = "Ink"
              /\ Len(InstancesFor(p)[k].ink_paths) = 3
              /\ InstancesFor(p)[k].ink_paths[2] = <<>>
              /\ Len(NewObjectFor(p, k).d["InkList"].a) = 3
              /\ Len(NewObjectFor(p, k).d["InkList"].a[1].a) = 4
              /\ NewObjectFor(p, k).d["InkList"].a[2].a = <<>>
              /\ Len(NewObjectFor(p, k).d["InkList"].a[3].a) = 2

(* C25: common fields of every encoded annotation.  Each dictionary an add
   creates has Type = Annot, P = a reference to the page whose Annots array
   receives the reference to it, F = 4 (print, with the no-zoom bit 8 and the
   no-rotate bit 16 clear), and CreationDate and M strings that are equal. *)
C25_CommonFields ==
    (Op = "save_annotations" /\ Result.ok) =>
        \A p \in DOMAIN SourceFile.pages :
            \A k \in DOMAIN InstancesFor(p) :
                LET obj == NewObjectFor(p, k)
                IN  /\ obj.t = "Dictionary"
                    /\ {"Type", "P", "F", "CreationDate", "M"} \subseteq DOMAIN obj.d
                    /\ obj.d["Type"] = [t |-> "Name", n |-> "Annot"]
                    /\ obj.d["P"] = [t |-> "Reference", id |-> DestFile.pages[p]]
                    /\ obj.d["F"] = [t |-> "Integer", i |-> 4]
                    /\ (obj.d["F"].i \div 8) % 2 = 0
                    /\ (obj.d["F"].i \div 16) % 2 = 0
                    /\ obj.d["CreationDate"].t = "String"
                    /\ obj.d["M"] = obj.d["CreationDate"]

(* an add that put a new annotation on each of two pages, each pointing back
   to its own page; the clock moved on between the two objects, so their
   dates differ, and each still has M equal to its own CreationDate *)
C25_Witness ==
    /\ Op = "save_annotations" /\ Result.ok
    /\ Len(SourceFile.pages) >= 2
    /\ InstancesFor(1) # <<>> /\ InstancesFor(2) # <<>>
    /\ NewObjectFor(1, 1).d["P"].id = DestFile.pages[1]
    /\ NewObjectFor(2, 1).d["P"].id = DestFile.pages[2]
    /\ DestFile.pages[1] # DestFile.pages[2]
    /\ NewObjectFor(1, 1).d["F"].i = 4
    /\ NewObjectFor(1, 1).d["CreationDate"].s = "D:20261029213903+00'00'"
    /\ NewObjectFor(2, 1).d["CreationDate"].s = "D:20261029213904+00'00'"
    /\ NewObjectFor(1, 1).d["M"] = NewObjectFor(1, 1).d["CreationDate"]
    /\ NewObjectFor(2, 1).d["M"] = NewObjectFor(2, 1).d["CreationDate"]

(* the path a successful command leaves its document at *)
TargetPath == IF InPlace THEN last.source_path ELSE last.dest_path[1]

CoreOutcome == last.outcome.core

(* C27: add with an empty instance list still serializes.  A save command
   given no instance on a loadable source hands the unmodified graph to the
   serializer once; unless the serialization fails the core returns success
   with count 0 and, once the command has succeeded, the path it targets (the
   destination, or the source for an in-place save) holds the source
   document.  A remove that finds nothing and a clear that counts nothing do
   not serialize at all. *)
C27_EmptyAddStillWrites ==
    /\ (Op = "commands::save_annotations" /\ last.annotations = <<>>
           /\ Loadable(SourceFile)) =>
          /\ CoreOutcome.save_calls = 1
          /\ CoreOutcome.graph = SourceFile
          /\ CoreOutcome.written <=> CoreOutcome.result.ok
          /\ CoreOutcome.result.ok => CoreOutcome.result.val.annotations_count = 0
          /\ ~CoreOutcome.result.ok => CoreOutcome.result.err = SaveError
          /\ (CoreOutcome.written /\ ~InPlace) => Result.ok
          /\ Result.ok =>
                /\ Result.val.success /\ Result.val.annotations_count = 0
                /\ files[TargetPath] = SourceFile
    /\ (Op = "commands::remove_annotation" /\ Result.ok /\ Result.val = FALSE) =>
          CoreOutcome.save_calls = 0
    /\ (Op = "commands::clear_page_annotations" /\ Result.ok /\ Result.val = 0) =>
          CoreOutcome.save_calls = 0

(* a save of no instance to a destination that held no file and now holds
   the source document *)
C27_Witness ==
    /\ Op = "commands::save_annotations" /\ last.annotations = <<>>
    /\ Loadable(SourceFile)
    /\ ~InPlace
    /\ last.before[TargetPath] = NoFile
    /\ Result.ok /\ Result.val.annotations_count = 0
    /\ CoreOutcome.save_calls = 1
    /\ files[TargetPath] = SourceFile

(* an in-place save of no instance: the temp file was written and renamed
   over the source, which holds the same document as before *)
C27_WitnessInPlace ==
    /\ Op = "commands::save_annotations" /\ last.annotations = <<>>
    /\ Loadable(SourceFile)
    /\ InPlace
    /\ Result.ok /\ CoreOutcome.written
    /\ files[TargetPath] = SourceFile /\ files[TempOfSource] = NoFile

----------------------------------------------------------------------------
(* What a document holds, for the properties of the decoder *)

RecognizedSubtypes == {"Highlight", "Underline", "StrikeOut", "Ink", "Text"}

TypeNamed(subtype) == IF subtype = "StrikeOut" THEN "Strikethrough" ELSE subtype

(* the entry refers to a dictionary whose Subtype is one of the five names *)
HasRecognizedSubtype(doc, e) ==
    /\ ResolvesToDict(doc, e)
    /\ "Subtype" \in DOMAIN doc.objects[e.id].d
    /\ doc.objects[e.id].d["Subtype"].t = "Name"
    /\ doc.objects[e.id].d["Subtype"].n \in RecognizedSubtypes

Decodable(doc, e) == HasRecognizedSubtype(doc, e) /\ HasStoredRect(doc, e)

(* page, type and rect of an annotation: of a stored one and of a decoded one *)
ShapeOfEntry(doc, p, e) ==
    [page |-> p - 1,
     annotation_type |-> TypeNamed(doc.objects[e.id].d["Subtype"].n),
     rect |-> StoredRect(doc, e)]

ShapeOf(a) == [page |-> a.page, annotation_type |-> a.annotation_type, rect |-> a.rect]

Shapes(list) == [k \in DOMAIN list |-> ShapeOf(list[k])]

(* the decodable entries of page p in array order, then those of the pages
   after it in page order *)
ExpectedOnPage(doc, p) ==
    LET Good(e) == Decodable(doc, e)
        kept == SelectSeq(Entries(doc, p), Good)
    IN  [k \in DOMAIN kept |-> ShapeOfEntry(doc, p, kept[k])]

RECURSIVE ExpectedFrom(_, _)
ExpectedFrom(doc, p) ==
    IF p > Len(doc.pages) THEN <<>>
    ELSE ExpectedOnPage(doc, p) \o ExpectedFrom(doc, p + 1)

AllEntries(doc) ==
    {Entries(doc, p)[i] : <<p, i>> \in {<<q, j>> \in (DOMAIN doc.pages) \X (1..Len(doc.objects)) :
                                          j \in DOMAIN Entries(doc, q)}}

(* every Annots value is a reference and so is every entry of the arrays *)
ReferencesOnly(doc) ==
    /\ \A p \in DOMAIN doc.pages :
          "Annots" \in DOMAIN PageDict(doc, p) => PageDict(doc, p)["Annots"].t = "Reference"
    /\ \A e \in AllEntries(doc) : e.t = "Reference"

(* C16: unknown subtype robustness.  Decoding a loadable document some of
   whose Annots entries refer to a dictionary with a Subtype outside the five
   names, or with no Subtype name, succeeds, and the result is exactly the
   entries with a recognized Subtype and a four-number Rect. *)
C16_UnknownSubtypeOmitted ==
    (/\ Op = "get_annotations" /\ Loadable(SourceFile)
     /\ \E e \in AllEntries(SourceFile) :
           ResolvesToDict(SourceFile, e) /\ ~HasRecognizedSubtype(SourceFile, e)) =>
        /\ Result.ok
        /\ Shapes(Result.val) = ExpectedFrom(SourceFile, 1)

(* C17: decode order.  The list a decode returns is the decodable entries of
   the first page in the order of its Annots array, then those of the next
   page, and so on, each with page = page number - 1; what is skipped leaves
   the rest in order. *)
C17_DecodeOrder ==
    (Op = "get_annotations" /\ Result.ok) =>
        Shapes(Result.val) = ExpectedFrom(SourceFile, 1)

(* two annotations of the first page around skipped entries, then those of
   the second page *)
C17_Witness ==
    /\ Op = "get_annotations" /\ Result.ok
    /\ Len(Result.val) >= 4
    /\ Result.val[1].page = 0 /\ Result.val[1].annotation_type = "Text"
    /\ Result.val[2].page = 0 /\ Result.val[2].annotation_type = "Highlight"
    /\ Result.val[3].page = 1
    /\ Len(Entries(SourceFile, 1)) > 2

(* Decoding a document all of whose Annots values and entries are references
   succeeds and returns exactly the decodable entries: what the decoder does
   with its input once get_object_id lets it through. *)
DecodeBehindReferences ==
    (Op = "get_annotations" /\ Loadable(SourceFile)) =>
        /\ Result.ok <=> ReferencesOnly(SourceFile)
        /\ Result.ok => Shapes(Result.val) = ExpectedFrom(SourceFile, 1)

----------------------------------------------------------------------------
(* What a decoded annotation carries besides its page, type and rect *)

(* the dictionaries of the decodable entries of page p in array order, then
   those of the pages after it: one per decoded annotation *)
DictsOnPage(doc, p) ==
    LET Good(e) == Decodable(doc, e)
        kept == SelectSeq(Entries(doc, p), Good)
    IN  [k \in DOMAIN kept |-> doc.objects[kept[k].id].d]

RECURSIVE DictsFrom(_, _)
DictsFrom(doc, p) ==
    IF p > Len(doc.pages) THEN <<>>
    ELSE DictsOnPage(doc, p) \o DictsFrom(doc, p + 1)

Decoded == Result.val

Stored == DictsFrom(SourceFile, 1)

Decoding == Op = "get_annotations" /\ Result.ok /\ Len(Decoded) = Len(Stored)

IsNumber(o) == o.t \in {"Integer", "Real"}

Yellow == [r |-> Whole(1), g |-> Ratio(92, 100), b |-> Ratio(23, 100)]

(* C is an array of at least three entries whose first three are numbers *)
WellFormedColor(d) ==
    /\ "C" \in DOMAIN d
    /\ d["C"].t = "Array"
    /\ Len(d["C"].a) >= 3
    /\ \A k \in 1..3 : IsNumber(d["C"].a[k])

FirstThree(d) ==
    [r |-> NumberOf(d["C"].a[1])[1], g |-> NumberOf(d["C"].a[2])[1],
     b |-> NumberOf(d["C"].a[3])[1]]

(* C21: decode color default.  The color of a decoded annotation is the first
   three numbers of its C entry when C is an array of at least three entries
   whose first three are numbers, and the default yellow (1.0, 0.92, 0.23)
   when C is absent, not an array, shorter than three or holds a non-numeric
   component. *)
C21_ColorDefault ==
    Decoding =>
        \A k \in DOMAIN Decoded :
            Decoded[k].color = IF WellFormedColor(Stored[k]) THEN FirstThree(Stored[k])
                               ELSE Yellow

(* A decoded color takes each of its three components from C when that
   component is a number and from the default yellow when it is not, once C
   is an array of at least three entries; it is the default yellow otherwise. *)
ColorPerComponent ==
    Decoding =>
        \A k \in DOMAIN Decoded :
            LET d == Stored[k]
                c == Decoded[k].color
            IN  IF "C" \in DOMAIN d /\ d["C"].t = "Array" /\ Len(d["C"].a) >= 3
                THEN /\ c.r = IF IsNumber(d["C"].a[1]) THEN NumberOf(d["C"].a[1])[1] ELSE Yellow.r
                     /\ c.g = IF IsNumber(d["C"].a[2]) THEN NumberOf(d["C"].a[2])[1] ELSE Yellow.g
                     /\ c.b = IF IsNumber(d["C"].a[3]) THEN NumberOf(d["C"].a[3])[1] ELSE Yellow.b
                ELSE c = Yellow

(* the number under key in d, when there is one *)
HasNumber(d, key) == key \in DOMAIN d /\ IsNumber(d[key])

HasBorderWidth(d) ==
    /\ "BS" \in DOMAIN d
    /\ d["BS"].t = "Dictionary"
    /\ HasNumber(d["BS"].d, "W")

(* C22: decode read-or-default.  A decoded annotation has the opacity of a
   numeric CA and 1.0 when CA is missing or not a number; the text of a string
   Contents and the empty string when Contents is missing or not a string; the
   width W of a BS dictionary and 2.0 when BS is missing, is no dictionary or
   has no numeric W; and never an id. *)
C22_ReadOrDefault ==
    Decoding =>
        \A k \in DOMAIN Decoded :
            /\ Decoded[k].opacity =
                  IF HasNumber(Stored[k], "CA") THEN NumberOf(Stored[k]["CA"])[1] ELSE Whole(1)
            /\ Decoded[k].contents =
                  IF "Contents" \in DOMAIN Stored[k] /\ Stored[k]["Contents"].t = "String"
                  THEN Stored[k]["Contents"].s ELSE ""
            /\ Decoded[k].stroke_width =
                  IF HasBorderWidth(Stored[k]) THEN NumberOf(Stored[k]["BS"].d["W"])[1]
                  ELSE Whole(2)
            /\ Decoded[k].id = <<>>

(* one decode returns an annotation whose CA and Contents have the wrong type
   and whose BS has no W, one with no CA and no Contents whose W is read, one
   with no BS whose CA is read, one whose W is not a number and which carries
   a name, and one whose BS is no dictionary *)
C22_Witness ==
    /\ Decoding
    /\ \E k \in DOMAIN Decoded :
          /\ "CA" \in DOMAIN Stored[k] /\ ~IsNumber(Stored[k]["CA"])
          /\ "Contents" \in DOMAIN Stored[k] /\ Stored[k]["Contents"].t # "String"
          /\ "BS" \in DOMAIN Stored[k] /\ Stored[k]["BS"].t = "Dictionary"
          /\ "W" \notin DOMAIN Stored[k]["BS"].d
          /\ Decoded[k].opacity = Whole(1) /\ Decoded[k].contents = ""
          /\ Decoded[k].stroke_width = Whole(2)
    /\ \E k \in DOMAIN Decoded :
          /\ {"CA", "Contents"} \cap DOMAIN Stored[k] = {}
          /\ Decoded[k].opacity = Whole(1) /\ Decoded[k].contents = ""
          /\ Decoded[k].stroke_width = Whole(3)
    /\ \E k \in DOMAIN Decoded :
          /\ "BS" \notin DOMAIN Stored[k] /\ Decoded[k].stroke_width = Whole(2)
          /\ Decoded[k].opacity = Ratio(1, 2)
    /\ \E k \in DOMAIN Decoded :
          /\ "NM" \in DOMAIN Stored[k] /\ Decoded[k].id = <<>>
          /\ "BS" \in DOMAIN Stored[k] /\ Stored[k]["BS"].t = "Dictionary"
          /\ "W" \in DOMAIN Stored[k]["BS"].d /\ Decoded[k].stroke_width = Whole(2)
          /\ Decoded[k].contents = "said"
    /\ \E k \in DOMAIN Decoded :
          /\ HasNumber(Stored[k], "CA") /\ Decoded[k].opacity = Ratio(1, 4)
          /\ "BS" \in DOMAIN Stored[k] /\ Stored[k]["BS"].t # "Dictionary"

(* the points of an array of numbers: entries 1 and 2, entries 3 and 4, and
   so on, without the pairs that have a non-numeric member and without a last
   entry that has no partner *)
PairsOf(a) ==
    LET pairs == [i \in 1..(Len(a) \div 2) |-> <<a[2 * i - 1], a[2 * i]>>]
        Numeric(pr) == IsNumber(pr[1]) /\ IsNumber(pr[2])
        kept == SelectSeq(pairs, Numeric)
    IN  [i \in DOMAIN kept |-> [x |-> NumberOf(kept[i][1])[1], y |-> NumberOf(kept[i][2])[1]]]

(* one stroke per inner array, without the strokes that have no point *)
StrokesOf(l) ==
    LET IsArray(o) == o.t = "Array"
        inner == SelectSeq(l, IsArray)
        strokes == [i \in DOMAIN inner |-> PairsOf(inner[i].a)]
        HasPoint(st) == st # <<>>
    IN  SelectSeq(strokes, HasPoint)

HasArray(d, key) == key \in DOMAIN d /\ d[key].t = "Array"

(* C23: decode geometry.  quad_points of a decoded annotation is its
   QuadPoints array read as consecutive (x, y) pairs in array order; ink_paths
   is one stroke per inner array of its InkList, each read the same way; a
   trailing unpaired number and a pair with a non-numeric member are dropped,
   and so is a stroke left with no point. *)
C23_DecodeGeometry ==
    Decoding =>
        \A k \in DOMAIN Decoded :
            /\ Decoded[k].quad_points =
                  IF HasArray(Stored[k], "QuadPoints") THEN PairsOf(Stored[k]["QuadPoints"].a)
                  ELSE <<>>
            /\ Decoded[k].ink_paths =
                  IF HasArray(Stored[k], "InkList") THEN StrokesOf(Stored[k]["InkList"].a)
                  ELSE <<>>

(* one decode returns a markup annotation whose seven QuadPoints entries, the
   second a name, give the two points (3,4) and (5,6), and an ink annotation
   whose InkList of four entries gives the strokes (1,2) (3,4) and (7,8) *)
C23_Witness ==
    /\ Decoding
    /\ \E k \in DOMAIN Decoded :
          /\ Decoded[k].annotation_type = "Underline"
          /\ HasArray(Stored[k], "QuadPoints")
          /\ Len(Stored[k]["QuadPoints"].a) = 7
          /\ ~IsNumber(Stored[k]["QuadPoints"].a[2])
          /\ Decoded[k].quad_points = <<[x |-> Whole(3), y |-> Whole(4)],
                                        [x |-> Whole(5), y |-> Whole(6)]>>
    /\ \E k \in DOMAIN Decoded :
          /\ Decoded[k].annotation_type = "Ink"
          /\ HasArray(Stored[k], "InkList")
          /\ Len(Stored[k]["InkList"].a) = 4
          /\ Decoded[k].ink_paths = << <<[x |-> Whole(1), y |-> Whole(2)],
                                         [x |-> Whole(3), y |-> Whole(4)]>>,
                                       <<[x |-> Whole(7), y |-> Whole(8)]>> >>
    /\ \E k \in DOMAIN Decoded :
          /\ HasArray(Stored[k], "InkList")
          /\ Len(Stored[k]["InkList"].a) = 2
          /\ Len(Decoded[k].ink_paths) = 1

----------------------------------------------------------------------------
(* Lines of text rectangles *)

(* the rectangle that opened the run the i-th rectangle falls in: the
   rectangle itself when it is the first or its y is 2.0 or more away from
   the y of the opener of the rectangle before it *)
RECURSIVE OpenerOf(_, _)
OpenerOf(rects, i) ==
    IF i = 1 THEN 1
    ELSE IF Less(Minus(rects[i].y, rects[OpenerOf(rects, i - 1)].y), Whole(2))
            /\ Less(Minus(rects[OpenerOf(rects, i - 1)].y, rects[i].y), Whole(2))
         THEN OpenerOf(rects, i - 1)
    ELSE i

RunOf(rects, o) == {i \in DOMAIN rects : OpenerOf(rects, i) = o}

Openers(rects) == {i \in DOMAIN rects : OpenerOf(rects, i) = i}

RightEdge(r) == Plus(r.x, r.width)

Largest(S) == CHOOSE m \in S : \A n \in S : ~Less(m, n)

(* the rectangle a run collapses into *)
RunRect(rects, o) ==
    [x |-> rects[o].x,
     y |-> rects[o].y,
     width |-> Minus(Largest({RightEdge(rects[i]) : i \in RunOf(rects, o)}), rects[o].x),
     height |-> Largest({rects[i].height : i \in RunOf(rects, o)})]

(* C26: merge_text_rects merges runs of rectangles on the same line.  The
   output has one rectangle per run, in order, a run being the consecutive
   rectangles whose y is less than 2.0 away from the y of the rectangle that
   opened it; the rectangle of a run starts at the opener's x and y, its width
   reaches the largest right edge of the run and its height is the largest
   height of the run; the output is never longer than the input. *)
C26_MergeRuns ==
    merged # None =>
        /\ Len(merged[1]) = Cardinality(Openers(text_rects))
        /\ Len(merged[1]) <= Len(text_rects)
        /\ \A k \in DOMAIN merged[1] :
              \E o \in Openers(text_rects) :
                 /\ Cardinality({n \in Openers(text_rects) : n <= o}) = k
                 /\ merged[1][k] = RunRect(text_rects, o)

(* three adjacent rectangles of width 10 on line 10 merged into one of
   width 30 *)
C26_Witness ==
    /\ text_rects = <<TextRect(Whole(0), Whole(10), Whole(10), Whole(12)),
                      TextRect(Whole(10), Whole(10), Whole(10), Whole(12)),
                      TextRect(Whole(20), Whole(10), Whole(10), Whole(12))>>
    /\ merged = <<  <<TextRect(Whole(0), Whole(10), Whole(30), Whole(12))>>  >>

(* rectangles on lines 10, 11 and 12: the third is one unit from the second
   but two from the opener, and starts a new run *)
C26_WitnessOpener ==
    /\ merged # None
    /\ Len(text_rects) = 3
    /\ text_rects[1].y = Whole(10) /\ text_rects[2].y = Whole(11)
    /\ text_rects[3].y = Whole(12)
    /\ Len(merged[1]) = 2
    /\ merged[1][1].width = Whole(35) /\ merged[1][1].height = Whole(14)

----------------------------------------------------------------------------
(* The graph after a write, for the frame properties *)

WasIndirect(p) ==
    /\ "Annots" \in DOMAIN PageDict(SourceFile, p)
    /\ PageDict(SourceFile, p)["Annots"].t = "Reference"

(* the object an indirect Annots of the source referred to is still in the
   written graph, unchanged *)
ReferredObjectKept(p) ==
    LET r == PageDict(SourceFile, p)["Annots"].id
    IN  r \in DOMAIN SourceFile.objects =>
          r \in DOMAIN DestFile.objects /\ DestFile.objects[r] = SourceFile.objects[r]

(* C18: clear performs no cleanup.  The document a clear wrote has the same
   objects under the same ids as the source, every one unchanged (the
   annotation objects and, for an indirect Annots, the array object), but for
   the target page's dictionary, which has lost its Annots key and nothing
   else. *)
C18_ClearKeepsObjects ==
    (Op = "clear_page_annotations" /\ Result.ok /\ Result.val > 0) =>
        /\ DestFile.kind = "pdf"
        /\ DestFile.pages = SourceFile.pages
        /\ DOMAIN DestFile.objects = DOMAIN SourceFile.objects
        /\ \A id \in DOMAIN SourceFile.objects :
              id # SourceFile.pages[TargetPage] =>
                  DestFile.objects[id] = SourceFile.objects[id]
        /\ DestFile.objects[SourceFile.pages[TargetPage]].t = "Dictionary"
        /\ PageDict(DestFile, TargetPage) =
              [k \in (DOMAIN PageDict(SourceFile, TargetPage)) \ {"Annots"} |->
                  PageDict(SourceFile, TargetPage)[k]]

(* a cleared indirect Annots whose array object and annotation dictionaries
   are still in the written graph *)
C18_Witness ==
    /\ Op = "clear_page_annotations" /\ Result.ok
    /\ Result.val > 0
    /\ WasIndirect(TargetPage)
    /\ DestFile # NoFile
    /\ LET r == PageDict(SourceFile, TargetPage)["Annots"].id
       IN  /\ DestFile.objects[r].t = "Array"
           /\ DestFile.objects[r].a = Entries(SourceFile, TargetPage)
           /\ \E i \in DOMAIN DestFile.objects[r].a :
                 ResolvesToDict(DestFile, DestFile.objects[r].a[i])

(* C19: every write-back collapses the Annots form.  After a successful add
   every page that received instances, and after a remove that returned true
   the target page, holds Annots as a direct array; an array object the
   source's Annots referred to is still there, unchanged.  A remove that
   returned false wrote nothing. *)
C19_WriteBackCollapses ==
    /\ (Op = "save_annotations" /\ Result.ok) =>
          \A p \in DOMAIN SourceFile.pages :
              InstancesFor(p) # <<>> =>
                  /\ HasDirectAnnots(DestFile, p)
                  /\ WasIndirect(p) => ReferredObjectKept(p)
    /\ (Op = "remove_annotation" /\ Result.ok /\ Result.val) =>
          /\ HasDirectAnnots(DestFile, TargetPage)
          /\ WasIndirect(TargetPage) => ReferredObjectKept(TargetPage)
    /\ (Op = "remove_annotation" /\ Result.ok /\ ~Result.val) =>
          /\ last.outcome.save_calls = 0
          /\ files = last.before

(* an add on a page whose Annots was an indirect array of several entries *)
C19_Witness ==
    /\ Op = "save_annotations" /\ Result.ok
    /\ \E p \in DOMAIN SourceFile.pages :
          /\ InstancesFor(p) # <<>>
          /\ WasIndirect(p)
          /\ Len(Entries(SourceFile, p)) >= 2
          /\ PageDict(DestFile, p)["Annots"].t = "Array"
          /\ DestFile.objects[PageDict(SourceFile, p)["Annots"].id]
                = [t |-> "Array", a |-> Entries(SourceFile, p)]

(* C20: a bad Rect skips one annotation.  Decoding a loadable document some
   of whose entries refer to an annotation dictionary with a recognized
   Subtype and a Rect that is absent, not an array, not four long or not all
   numbers, returns every decodable entry of every page and leaves out the
   ones with the bad Rect. *)
C20_BadRectSkipsOne ==
    (/\ Op = "get_annotations" /\ Loadable(SourceFile)
     /\ \E e \in AllEntries(SourceFile) :
           HasRecognizedSubtype(SourceFile, e) /\ ~HasStoredRect(SourceFile, e)) =>
        /\ Result.ok
        /\ \A k \in DOMAIN ExpectedFrom(SourceFile, 1) :
              \E j \in DOMAIN Result.val :
                  ShapeOf(Result.val[j]) = ExpectedFrom(SourceFile, 1)[k]
        /\ Len(Result.val) = Len(ExpectedFrom(SourceFile, 1))

(* C28: remove only unlinks.  The document a remove that returned true wrote
   has the same pages and the same objects under the same ids as the source,
   every one unchanged (the dictionaries of the matched annotations, the
   other pages' dictionaries and, for an indirect Annots, the array object),
   but for the target page's dictionary, of which only the Annots value
   differs. *)
C28_RemoveOnlyUnlinks ==
    (Op = "remove_annotation" /\ Result.ok /\ Result.val = TRUE) =>
        /\ DestFile.kind = "pdf"
        /\ DestFile.pages = SourceFile.pages
        /\ DOMAIN DestFile.objects = DOMAIN SourceFile.objects
        /\ \A id \in DOMAIN SourceFile.objects :
              id # SourceFile.pages[TargetPage] =>
                  DestFile.objects[id] = SourceFile.objects[id]
        /\ \A i \in MatchingEntries(SourceFile, TargetPage, last.rect) :
              /\ Entries(SourceFile, TargetPage)[i].id \in DOMAIN DestFile.objects
              /\ DestFile.objects[Entries(SourceFile, TargetPage)[i].id] =
                    SourceFile.objects[Entries(SourceFile, TargetPage)[i].id]
        /\ DestFile.objects[SourceFile.pages[TargetPage]].t = "Dictionary"
        /\ DOMAIN PageDict(DestFile, TargetPage) = DOMAIN PageDict(SourceFile, TargetPage)
        /\ \A k \in DOMAIN PageDict(SourceFile, TargetPage) :
              k # "Annots" => PageDict(DestFile, TargetPage)[k] = PageDict(SourceFile, TargetPage)[k]
        /\ \A p \in DOMAIN SourceFile.pages :
              p # TargetPage => Entries(DestFile, p) = Entries(SourceFile, p)

(* a remove from an indirect Annots array: the matched dictionary and the
   array object that still lists it are in the written graph, and the other
   page keeps its annotations *)
C28_Witness ==
    /\ Op = "remove_annotation" /\ Result.ok
    /\ Result.val = TRUE
    /\ DestFile # NoFile
    /\ WasIndirect(TargetPage)
    /\ MatchingEntries(SourceFile, TargetPage, last.rect) # {}
    /\ \A i \in MatchingEntries(SourceFile, TargetPage, last.rect) :
          DestFile.objects[Entries(SourceFile, TargetPage)[i].id].t = "Dictionary"
    /\ LET r == PageDict(SourceFile, TargetPage)["Annots"].id
       IN  /\ DestFile.objects[r].t = "Array"
           /\ DestFile.objects[r].a = Entries(SourceFile, TargetPage)
    /\ Len(Entries(DestFile, TargetPage)) < Len(Entries(SourceFile, TargetPage))
    /\ \E p \in DOMAIN SourceFile.pages :
          p # TargetPage /\ Entries(DestFile, p) # <<>>

----------------------------------------------------------------------------
(* Commands that run at the same time on one source path *)

Original == last.before[SourcePath]

AllDone == \A i \in Procs : procs[i].pc = "done"

AllSaves == \A i \in Procs : procs[i].op = "commands::save_annotations"

(* no command started while another was between its load and its return *)
Serial == \A i \in Procs : ~procs[i].overlapped

(* the entries of a's page in doc that refer to a dictionary encoding a *)
EntriesEncoding(doc, a) ==
    {k \in DOMAIN Entries(doc, a.page + 1) :
        /\ ResolvesToDict(doc, Entries(doc, a.page + 1)[k])
        /\ {"Subtype", "Rect"} \subseteq DOMAIN doc.objects[Entries(doc, a.page + 1)[k].id].d
        /\ doc.objects[Entries(doc, a.page + 1)[k].id].d["Rect"].t = "Array"
        /\ Encodes(doc.objects[Entries(doc, a.page + 1)[k].id], a)}

(* the source file holds what command i asked for: one more annotation
   encoding each requested instance than the document the command loaded *)
HoldsRequest(i) ==
    /\ Loadable(files[SourcePath])
    /\ \A k \in DOMAIN procs[i].annotations :
          Cardinality(EntriesEncoding(files[SourcePath], procs[i].annotations[k])) >
             Cardinality(EntriesEncoding(procs[i].loaded, procs[i].annotations[k]))

(* C29 as claimed: no lost acknowledged update under concurrent in-place
   commands.  When in-place save commands on the same source run with their
   steps interleaved in any order, every command that returned success has
   its requested annotations in the source file once all have finished. *)
C29_NoLostUpdate ==
    (AllDone /\ AllSaves) =>
        \A i \in Procs : procs[i].result.ok => HoldsRequest(i)

(* both saves returned success, the source is a complete document, and the
   annotation of one of them is not in it *)
LostUpdate ==
    /\ AllDone /\ AllSaves
    /\ \A i \in Procs : procs[i].result.ok
    /\ Loadable(files[SourcePath])
    /\ \E i \in Procs : ~HoldsRequest(i)

(* C29: no lost acknowledged update when the commands do not overlap.  When
   in-place save commands on the same source run one after the other, every
   command that returned success has its requested annotations in the source
   file once all have finished. *)
C29_NoLostUpdateWhenSerial ==
    (AllDone /\ AllSaves /\ Serial) =>
        \A i \in Procs : procs[i].result.ok => HoldsRequest(i)

(* two saves, one after the other, both successful and both in the source *)
C29_Witness ==
    /\ AllDone /\ AllSaves /\ Serial
    /\ \A i \in Procs : procs[i].result.ok /\ HoldsRequest(i)
    /\ \E i \in Procs : procs[i].loaded # Original

(* the source holds a complete document, the original or one a command
   wrote in full, and no command that returned an error changed it *)
SourceWhole ==
    /\ Loadable(files[SourcePath])
    /\ files[SourcePath] \in
          {Original} \cup {procs[i].core.graph : i \in {j \in Procs : procs[j].core.written}}
    /\ \A i \in Procs :
          (procs[i].pc = "done" /\ ~procs[i].result.ok) => ~procs[i].touched

(* C30 as claimed: the source file stays whole under any interleaving of
   in-place add, remove and clear commands on one source path: at every
   moment the source path holds a complete serialized document, the original
   or one fully written by some command, and a command that returns an error
   has left the source content unchanged. *)
C30_SourceStaysWhole == SourceWhole

(* C30: the source file stays whole when the commands do not overlap.  Under
   any interleaving the source path holds a file; as long as no command has
   started while another was running, that file is a complete serialized
   document, the original or one fully written by some command, and a command
   that returned an error has left it unchanged. *)
C30_SourceStaysWholeWhenSerial ==
    /\ files[SourcePath] # NoFile
    /\ Serial => SourceWhole

(* two commands one after the other: one edited the source, which holds the
   document it wrote, and the other returned an error *)
C30_Witness ==
    /\ AllDone /\ Serial
    /\ \E i \in Procs : ~procs[i].result.ok
    /\ \E j \in Procs :
          /\ procs[j].result.ok /\ procs[j].core.written
          /\ files[SourcePath] = procs[j].core.graph
          /\ files[SourcePath] # Original

(* the source never holds a truncated file *)
SourceNeverPartial == files[SourcePath] # Partial

(* no command that returned an error has written into the source *)
ErrorLeavesSource ==
    \A i \in Procs : (procs[i].pc = "done" /\ ~procs[i].result.ok) => ~procs[i].touched

====
